---- MODULE Spec2Model ----
(***************************************************************************)
(* Model of chaostoolkit_aws_mcp_server/server.py: the tool catalog        *)
(* (list_tools), the dispatcher (call_tool), the experiment generators,    *)
(* the document assembler (generate_experiment_json) and the subprocess    *)
(* runners (run_experiment, validate_experiment, rollback_from_state).     *)
(*                                                                         *)
(* Python values are tagged records [t, v]; a Python dict is a sequence of *)
(* [k, v] items in insertion order with unique keys.  Files hold text.     *)
(***************************************************************************)
EXTENDS Integers, Sequences, FiniteSets, TLC

VARIABLES
    fs,          \* the filesystem: path -> text of the file at that path
    pc,          \* "idle": awaiting a request; "rollback_loop": inside the loop of
                 \* rollback_from_state; "done": the handler has returned or raised
    call,        \* [name, arguments] of the call in progress or last finished
    ret,         \* outcome of the last finished call: returned text or raised exception
    experiment,  \* the document assembled by the last generator call
    wrote,       \* paths opened for writing during the current/last call
    spawned,     \* subprocess.run invocations of the current/last call, in order
    results,     \* rollback_from_state: the results list, one item per append
    origin,      \* rollback_from_state: for each item of results, the index of the
                 \* state file whose iteration appended it
    idx,         \* rollback_from_state: index of the next state file
    created,     \* rollback_from_state: temporary files created by the call
    asm,         \* inputs of the last direct generate_experiment_json call
    fs0,         \* the filesystem as it was when the current/last call started
    ncalls,      \* number of calls started so far
    inflight     \* generation requests served step by step, possibly by two server
                 \* processes: for each its [name, arguments, process, at, ret]

vars == <<fs, pc, call, ret, experiment, wrote, spawned, results, origin, idx, created,
          asm, fs0, ncalls, inflight>>

----------------------------------------------------------------------------
(* Bounds of the model *)

\* longest probes / actions / rollbacks list handed to the assembler
MaxItems == 2
\* longest state_files list handed to rollback_from_state
MaxFiles == 2
\* number of tool calls in one behaviour
MaxCalls == 1
\* the longest sequence of generation calls aimed at the same paths
MaxWrites == 2

----------------------------------------------------------------------------
(* Python values *)

PyStr(s) == [t |-> "str", v |-> s]
PyBool(b) == [t |-> "bool", v |-> b]
PyInt(n) == [t |-> "int", v |-> n]
PyList(l) == [t |-> "list", v |-> l]
PyDict(d) == [t |-> "dict", v |-> d]

\* bool(x) as used by `if args.get(...)`
Truthy(x) ==
    CASE x.t = "str" -> x.v # ""
      [] x.t = "bool" -> x.v
      [] x.t = "int" -> x.v # 0
      [] x.t = "list" -> x.v # <<>>
      [] x.t = "dict" -> x.v # <<>>
      [] OTHER -> FALSE

\* str(x) as used inside an f-string, for the scalar values
Format(x) ==
    CASE x.t = "str" -> x.v
      [] x.t = "int" -> ToString(x.v)
      [] x.t = "bool" -> (IF x.v THEN "True" ELSE "False")
      [] OTHER -> "<object>"

\* k in d, for the items d of a dict
Has(d, k) == \E i \in 1..Len(d) : d[i].k = k

\* d[k], for k in d
Item(d, k) == d[CHOOSE i \in 1..Len(d) : d[i].k = k].v

\* d.get(k, default)
Get(d, k, default) == IF Has(d, k) THEN Item(d, k) ELSE default

\* x[k] for a dict value x
At(x, k) == Item(x.v, k)

\* {k: v for k, v in d.items() if k not in excluded}
\* faulty variant: nothing is excluded
Without_nothing(d, excluded) == d

RECURSIVE Without(_, _)
Without(d, excluded) ==
    IF d = <<>> THEN <<>>
    ELSE IF Head(d).k \in excluded THEN Without(Tail(d), excluded)
    ELSE <<Head(d)>> \o Without(Tail(d), excluded)

\* sub in s, for strings
Contains(s, sub) ==
    \E i \in 1..(Len(s) - Len(sub) + 1) : SubSeq(s, i, i + Len(sub) - 1) = sub

\* all sequences over S of length at most n
SeqsUpTo(S, n) == UNION {[1..m -> S] : m \in 0..n}

----------------------------------------------------------------------------
(* json.dumps(obj, indent=2): the text written to files and shown in previews *)

RECURSIVE Indent(_)
Indent(depth) == IF depth = 0 THEN "" ELSE "  " \o Indent(depth - 1)

\* character i of a text
Ch(text, i) == SubSeq(text, i, i)

\* the characters json.dump writes with a backslash, among those of the model's texts
Escaped == {"\"", "\\", "\n"}

RECURSIVE EscapeFrom(_, _)
EscapeFrom(s, i) ==
    IF i > Len(s) THEN ""
    ELSE (IF Ch(s, i) = "\n" THEN "\\n"
          ELSE IF Ch(s, i) \in Escaped THEN "\\" \o Ch(s, i)
          ELSE Ch(s, i))
         \o EscapeFrom(s, i + 1)

\* faulty variant: strings are written as they are
Escape_none(s) == s

\* the body of a JSON string: a quote or a backslash gets a backslash before it, a
\* line feed becomes \n
Escape(s) ==
    IF \A i \in 1..Len(s) : Ch(s, i) \notin Escaped THEN s ELSE EscapeFrom(s, 1)

RECURSIVE json_dumps_at(_, _), json_items(_, _, _)
json_dumps_at(x, depth) ==
    CASE x.t = "str" -> "\"" \o Escape(x.v) \o "\""
      [] x.t = "bool" -> (IF x.v THEN "true" ELSE "false")
      [] x.t = "int" -> ToString(x.v)
      [] x.t = "list" ->
            IF x.v = <<>> THEN "[]"
            ELSE "[\n" \o json_items(x.v, depth + 1, FALSE) \o "\n" \o Indent(depth) \o "]"
      [] x.t = "dict" ->
            IF x.v = <<>> THEN "{}"
            ELSE "{\n" \o json_items(x.v, depth + 1, TRUE) \o "\n" \o Indent(depth) \o "}"
      [] OTHER -> "null"

json_items(items, depth, keyed) ==
    LET first == Head(items)
        text == Indent(depth)
                \o (IF keyed THEN "\"" \o Escape(first.k) \o "\": " \o json_dumps_at(first.v, depth)
                    ELSE json_dumps_at(first, depth))
    IN IF Len(items) = 1 THEN text
       ELSE text \o ",\n" \o json_items(Tail(items), depth, keyed)

json_dumps(obj) == json_dumps_at(obj, 0)

----------------------------------------------------------------------------
(* json.load(f): the document read back from a written file *)

\* character p of a text, "" past its end
Peek(text, p) == IF p \in 1..Len(text) THEN Ch(text, p) ELSE ""

\* the first position at or after p whose character is not in `skipped`
FirstNotIn(text, p, skipped) ==
    CHOOSE q \in p..(Len(text) + 1) :
        /\ Peek(text, q) \notin skipped
        /\ \A j \in p..(q - 1) : Peek(text, j) \in skipped

\* the first position at or after p that holds no white space
SkipWs(text, p) == FirstNotIn(text, p, {" ", "\n"})

\* the first position at or after p that ends a run of plain string characters
EndOfChunk(text, p) ==
    CHOOSE q \in p..(Len(text) + 1) :
        /\ Peek(text, q) \in {"\"", "\\", "\n", ""}
        /\ \A j \in p..(q - 1) : Peek(text, j) \notin {"\"", "\\", "\n", ""}

\* a parse that failed at p
ParseError(p) == [ok |-> FALSE, v |-> PyStr(""), p |-> p]

\* d[k] = v
Put(d, k, v) ==
    IF Has(d, k) THEN [i \in 1..Len(d) |-> IF d[i].k = k THEN [k |-> k, v |-> v] ELSE d[i]]
    ELSE Append(d, [k |-> k, v |-> v])

Digits == <<"0", "1", "2", "3", "4", "5", "6", "7", "8", "9">>

IsDigit(c) == \E d \in 1..10 : Digits[d] = c

DigitValue(c) == (CHOOSE d \in 1..10 : Digits[d] = c) - 1

\* the characters of a string after its opening quote, up to the closing quote:
\* runs of plain characters, with \" and \\ read as the character after the
\* backslash and \n as a line feed; a bare line feed is not allowed inside a string
RECURSIVE ParseChars(_, _)
ParseChars(text, p) ==
    LET q == EndOfChunk(text, p)
        chunk == SubSeq(text, p, q - 1)
        c == Peek(text, q)
    IN IF c = "\"" THEN [ok |-> TRUE, v |-> chunk, p |-> q + 1]
       ELSE IF c = "\\"
       THEN LET r == ParseChars(text, q + 2)
                e == Peek(text, q + 1)
            IN [ok |-> r.ok /\ e \in {"\"", "\\", "n"},
                v |-> chunk \o (IF e = "n" THEN "\n" ELSE e) \o r.v, p |-> r.p]
       ELSE [ok |-> FALSE, v |-> chunk, p |-> q]

\* the digits from p on, after the value n of the digits before them
RECURSIVE ParseDigits(_, _, _)
ParseDigits(text, p, n) ==
    IF IsDigit(Peek(text, p)) THEN ParseDigits(text, p + 1, 10 * n + DigitValue(Peek(text, p)))
    ELSE [ok |-> TRUE, v |-> n, p |-> p]

RECURSIVE ParseValue(_, _), ParseElements(_, _, _), ParseMembers(_, _, _)
\* the value that starts at p
ParseValue(text, p) ==
    LET c == Peek(text, p)
    IN CASE c = "\"" ->
              LET r == ParseChars(text, p + 1) IN [ok |-> r.ok, v |-> PyStr(r.v), p |-> r.p]
         [] c = "{" ->
              LET q == SkipWs(text, p + 1)
              IN IF Peek(text, q) = "}" THEN [ok |-> TRUE, v |-> PyDict(<<>>), p |-> q + 1]
                 ELSE LET r == ParseMembers(text, q, <<>>)
                      IN [ok |-> r.ok, v |-> PyDict(r.v), p |-> r.p]
         [] c = "[" ->
              LET q == SkipWs(text, p + 1)
              IN IF Peek(text, q) = "]" THEN [ok |-> TRUE, v |-> PyList(<<>>), p |-> q + 1]
                 ELSE LET r == ParseElements(text, q, <<>>)
                      IN [ok |-> r.ok, v |-> PyList(r.v), p |-> r.p]
         [] c = "t" /\ p + 3 <= Len(text) /\ SubSeq(text, p, p + 3) = "true" ->
              [ok |-> TRUE, v |-> PyBool(TRUE), p |-> p + 4]
         [] c = "f" /\ p + 4 <= Len(text) /\ SubSeq(text, p, p + 4) = "false" ->
              [ok |-> TRUE, v |-> PyBool(FALSE), p |-> p + 5]
         [] c = "-" /\ IsDigit(Peek(text, p + 1)) ->
              LET r == ParseDigits(text, p + 1, 0) IN [ok |-> TRUE, v |-> PyInt(0 - r.v), p |-> r.p]
         [] IsDigit(c) ->
              LET r == ParseDigits(text, p, 0) IN [ok |-> TRUE, v |-> PyInt(r.v), p |-> r.p]
         [] OTHER -> ParseError(p)

\* the elements of a list from the one at p on, after the elements `done`
ParseElements(text, p, done) ==
    LET r == ParseValue(text, p)
        q == SkipWs(text, r.p)
    IN IF ~r.ok THEN [ok |-> FALSE, v |-> done, p |-> r.p]
       ELSE IF Peek(text, q) = "]" THEN [ok |-> TRUE, v |-> Append(done, r.v), p |-> q + 1]
       ELSE IF Peek(text, q) = ","
       THEN ParseElements(text, SkipWs(text, q + 1), Append(done, r.v))
       ELSE [ok |-> FALSE, v |-> done, p |-> q]

\* the members of an object from the one at p on, after the members `done`
ParseMembers(text, p, done) ==
    IF Peek(text, p) # "\"" THEN [ok |-> FALSE, v |-> done, p |-> p]
    ELSE LET key == ParseChars(text, p + 1)
             colon == SkipWs(text, key.p)
             r == ParseValue(text, SkipWs(text, colon + 1))
             q == SkipWs(text, r.p)
         IN IF ~key.ok \/ Peek(text, colon) # ":" \/ ~r.ok
            THEN [ok |-> FALSE, v |-> done, p |-> colon]
            ELSE IF Peek(text, q) = "}"
            THEN [ok |-> TRUE, v |-> Put(done, key.v, r.v), p |-> q + 1]
            ELSE IF Peek(text, q) = ","
            THEN ParseMembers(text, SkipWs(text, q + 1), Put(done, key.v, r.v))
            ELSE [ok |-> FALSE, v |-> done, p |-> q]

\* json.loads(text): ok tells whether the text is one JSON value and nothing else
json_loads(text) ==
    LET r == ParseValue(text, SkipWs(text, 1))
    IN [ok |-> r.ok /\ SkipWs(text, r.p) = Len(text) + 1, v |-> r.v]

----------------------------------------------------------------------------
(* Config models *)

\* faulty variant: the region is always the default
ExperimentConfig_default_region(title, description, aws_region) ==
    [title |-> title, description |-> description, aws_region |-> PyStr("us-east-1"),
     tags |-> PyList(<<>>)]

ExperimentConfig(title, description, aws_region) ==
    [title |-> title, description |-> description, aws_region |-> aws_region,
     tags |-> PyList(<<>>)]

ProbeConfig(name, module, func, arguments) ==
    [name |-> PyStr(name), type |-> PyStr("probe"), module |-> PyStr(module),
     func |-> PyStr(func), arguments |-> arguments, tolerance |-> PyBool(TRUE)]

ActionConfig(name, module, func, arguments) ==
    [name |-> PyStr(name), type |-> PyStr("action"), module |-> PyStr(module),
     func |-> PyStr(func), arguments |-> arguments]

----------------------------------------------------------------------------
(* Document assembler *)

\* faulty variant: the provider type follows the wrapper
Provider_by_kind(c) ==
    PyDict(<<[k |-> "type", v |-> c.type],
             [k |-> "module", v |-> c.module],
             [k |-> "func", v |-> c.func],
             [k |-> "arguments", v |-> c.arguments]>>)

Provider(c) ==
    PyDict(<<[k |-> "type", v |-> PyStr("python")],
             [k |-> "module", v |-> c.module],
             [k |-> "func", v |-> c.func],
             [k |-> "arguments", v |-> c.arguments]>>)

RenderProbe(probe) ==
    PyDict(<<[k |-> "type", v |-> probe.type],
             [k |-> "name", v |-> probe.name],
             [k |-> "provider", v |-> Provider(probe)],
             [k |-> "tolerance", v |-> probe.tolerance]>>)

RenderAction(action) ==
    PyDict(<<[k |-> "type", v |-> action.type],
             [k |-> "name", v |-> action.name],
             [k |-> "provider", v |-> Provider(action)]>>)

\* faulty variant: the skeleton carries another version
Document_draft(config, probes, method, rollbacks) ==
    PyDict(<<[k |-> "version", v |-> PyStr("0.1.0")],
             [k |-> "title", v |-> config.title],
             [k |-> "description", v |-> config.description],
             [k |-> "tags", v |-> config.tags],
             [k |-> "configuration",
              v |-> PyDict(<<[k |-> "aws_region", v |-> config.aws_region]>>)],
             [k |-> "steady-state-hypothesis",
              v |-> PyDict(<<[k |-> "title", v |-> PyStr("System is in steady state")],
                             [k |-> "probes", v |-> PyList(probes)]>>)],
             [k |-> "method", v |-> PyList(method)],
             [k |-> "rollbacks", v |-> PyList(rollbacks)]>>)

Document(config, probes, method, rollbacks) ==
    PyDict(<<[k |-> "version", v |-> PyStr("1.0.0")],
             [k |-> "title", v |-> config.title],
             [k |-> "description", v |-> config.description],
             [k |-> "tags", v |-> config.tags],
             [k |-> "configuration",
              v |-> PyDict(<<[k |-> "aws_region", v |-> config.aws_region]>>)],
             [k |-> "steady-state-hypothesis",
              v |-> PyDict(<<[k |-> "title", v |-> PyStr("System is in steady state")],
                             [k |-> "probes", v |-> PyList(probes)]>>)],
             [k |-> "method", v |-> PyList(method)],
             [k |-> "rollbacks", v |-> PyList(rollbacks)]>>)

\* faulty variant: the method list is built in reverse order
generate_experiment_json_reversed(config, probes, actions, rollbacks) ==
    Document(config,
             [i \in 1..Len(probes) |-> RenderProbe(probes[i])],
             [i \in 1..Len(actions) |-> RenderAction(actions[Len(actions) + 1 - i])],
             [i \in 1..Len(rollbacks) |-> RenderAction(rollbacks[i])])

generate_experiment_json(config, probes, actions, rollbacks) ==
    Document(config,
             [i \in 1..Len(probes) |-> RenderProbe(probes[i])],
             [i \in 1..Len(actions) |-> RenderAction(actions[i])],
             [i \in 1..Len(rollbacks) |-> RenderAction(rollbacks[i])])

----------------------------------------------------------------------------
(* The tool catalog *)

list_tools == <<
    [name |-> "chaos_generate_az_failure_experiment",
     properties |-> <<"title", "az", "failure_type", "dry_run", "health_check_url", "state_path", "output_file", "aws_region">>,
     required |-> <<"title", "az">>,
     output_file |-> "./az-failure-experiment.json"],
    [name |-> "chaos_isolate_az_network",
     properties |-> <<"title", "az", "vpc_id", "dry_run", "output_file", "aws_region">>,
     required |-> <<"title", "az", "vpc_id">>,
     output_file |-> "./isolate-az-experiment.json"],
    [name |-> "chaos_simulate_az_partition",
     properties |-> <<"title", "az", "partition_type", "dry_run", "output_file", "aws_region">>,
     required |-> <<"title", "az">>,
     output_file |-> "./az-partition-experiment.json"],
    [name |-> "chaos_generate_asg_az_failure_experiment",
     properties |-> <<"title", "az", "asg_tags", "dry_run", "health_check_url", "state_path", "output_file", "aws_region">>,
     required |-> <<"title", "az">>,
     output_file |-> "./asg-az-failure-experiment.json"],
    [name |-> "chaos_generate_ec2_actions_experiment",
     properties |-> <<"title", "action_type", "instance_ids", "filters", "az", "output_file", "aws_region">>,
     required |-> <<"title", "action_type">>,
     output_file |-> "./ec2-chaos-experiment.json"],
    [name |-> "chaos_run_experiment",
     properties |-> <<"experiment_file", "dry_run", "journal_path", "working_directory">>,
     required |-> <<"experiment_file">>,
     output_file |-> ""],
    [name |-> "chaos_validate_experiment",
     properties |-> <<"experiment_file">>,
     required |-> <<"experiment_file">>,
     output_file |-> ""],
    [name |-> "chaos_rollback_from_state",
     properties |-> <<"state_files", "working_directory">>,
     required |-> <<"state_files">>,
     output_file |-> ""],
    [name |-> "chaos_stop_instances",
     properties |-> <<"title", "instance_ids", "filters", "az", "force", "output_file", "aws_region">>,
     required |-> <<"title">>,
     output_file |-> "./stop-instances-experiment.json"],
    [name |-> "chaos_terminate_instances",
     properties |-> <<"title", "instance_ids", "filters", "az", "output_file", "aws_region">>,
     required |-> <<"title">>,
     output_file |-> "./terminate-instances-experiment.json"],
    [name |-> "chaos_reboot_instances",
     properties |-> <<"title", "instance_ids", "filters", "az", "output_file", "aws_region">>,
     required |-> <<"title">>,
     output_file |-> "./reboot-instances-experiment.json"],
    [name |-> "chaos_detach_volumes",
     properties |-> <<"title", "instance_ids", "volume_ids", "device_names", "force", "output_file", "aws_region">>,
     required |-> <<"title">>,
     output_file |-> "./detach-volumes-experiment.json"],
    [name |-> "chaos_suspend_asg_processes",
     properties |-> <<"title", "asg_names", "scaling_processes", "output_file", "aws_region">>,
     required |-> <<"title", "asg_names">>,
     output_file |-> "./suspend-asg-experiment.json"],
    [name |-> "chaos_terminate_random_instances",
     properties |-> <<"title", "asg_names", "instance_count", "az_name", "output_file", "aws_region">>,
     required |-> <<"title", "asg_names">>,
     output_file |-> "./terminate-random-experiment.json"],
    [name |-> "chaos_ssm_send_command",
     properties |-> <<"title", "instance_ids", "document_name", "commands", "output_file", "aws_region">>,
     required |-> <<"title", "instance_ids", "commands">>,
     output_file |-> "./ssm-command-experiment.json"],
    [name |-> "chaos_ssm_stress_cpu",
     properties |-> <<"title", "instance_ids", "cpu_cores", "duration_seconds", "output_file", "aws_region">>,
     required |-> <<"title", "instance_ids">>,
     output_file |-> "./ssm-cpu-stress-experiment.json"],
    [name |-> "chaos_ssm_fill_disk",
     properties |-> <<"title", "instance_ids", "path", "size_mb", "duration_seconds", "output_file", "aws_region">>,
     required |-> <<"title", "instance_ids">>,
     output_file |-> "./ssm-fill-disk-experiment.json"],
    [name |-> "chaos_ssm_kill_process",
     properties |-> <<"title", "instance_ids", "process_name", "signal", "output_file", "aws_region">>,
     required |-> <<"title", "instance_ids", "process_name">>,
     output_file |-> "./ssm-kill-process-experiment.json"],
    [name |-> "chaos_modify_security_groups",
     properties |-> <<"title", "group_ids", "action", "rules", "output_file", "aws_region">>,
     required |-> <<"title", "group_ids", "action">>,
     output_file |-> "./modify-sg-experiment.json"],
    [name |-> "chaos_simulate_network_latency",
     properties |-> <<"title", "instance_ids", "latency_ms", "duration_seconds", "output_file", "aws_region">>,
     required |-> <<"title", "instance_ids">>,
     output_file |-> "./network-latency-experiment.json"],
    [name |-> "chaos_reboot_db_instance",
     properties |-> <<"title", "db_instance_identifier", "force_failover", "output_file", "aws_region">>,
     required |-> <<"title", "db_instance_identifier">>,
     output_file |-> "./reboot-db-experiment.json"],
    [name |-> "chaos_failover_db_cluster",
     properties |-> <<"title", "db_cluster_identifier", "target_db_instance_identifier", "output_file", "aws_region">>,
     required |-> <<"title", "db_cluster_identifier">>,
     output_file |-> "./failover-cluster-experiment.json"],
    [name |-> "chaos_deregister_targets",
     properties |-> <<"title", "target_group_arn", "target_ids", "output_file", "aws_region">>,
     required |-> <<"title", "target_group_arn">>,
     output_file |-> "./deregister-targets-experiment.json"]
>>

ToolNames == {list_tools[i].name : i \in 1..Len(list_tools)}

\* the catalog entry of a listed tool
Tool(name) == list_tools[CHOOSE i \in 1..Len(list_tools) : list_tools[i].name = name]

RunnerTools ==
    {"chaos_run_experiment", "chaos_validate_experiment", "chaos_rollback_from_state"}

GenerationTools == ToolNames \ RunnerTools

\* the required fields of a listed tool that the arguments lack
MissingRequired(name, arguments) ==
    {Tool(name).required[i] : i \in 1..Len(Tool(name).required)} \
        {arguments[i].k : i \in 1..Len(arguments)}

----------------------------------------------------------------------------
(* The environment: directories, open(), call outcomes *)

\* the directories that exist
ExistingDirs == {".", "/tmp", "/var/chaos"}

\* os.path.dirname(path), "." for a bare file name
RECURSIVE LastSlash(_, _)
LastSlash(path, i) ==
    IF i = 0 THEN 0
    ELSE IF SubSeq(path, i, i) = "/" THEN i
    ELSE LastSlash(path, i - 1)

DirName(path) ==
    LET i == LastSlash(path, Len(path))
    IN IF i = 0 THEN "." ELSE IF i = 1 THEN "/" ELSE SubSeq(path, 1, i - 1)

\* open(path, "w") succeeds when the directory of path exists
CanOpenForWrite(path) == DirName(path) \in ExistingDirs

\* faulty variant: the existence check lets every path through
Exists_unchecked(path) == TRUE

\* os.path.exists(path)
Exists(path) == path \in DOMAIN fs

\* the text of the file the CLI is pointed at
ReadFile(path) == IF path \in DOMAIN fs THEN fs[path] ELSE ""

\* `experiment` before any generator has assembled one
NoDocument == PyDict(<<>>)

Returned(text) == [kind |-> "return", exc |-> "", text |-> text]
Raised(exc, text) == [kind |-> "raise", exc |-> exc, text |-> text]
NoResult == [kind |-> "none", exc |-> "", text |-> ""]

\* the first of `keys` that args lacks (the subscript that raises KeyError), or ""
RECURSIVE FirstMissing(_, _)
FirstMissing(args, keys) ==
    IF keys = <<>> THEN ""
    ELSE IF Has(args, Head(keys)) THEN FirstMissing(args, Tail(keys))
    ELSE Head(keys)

----------------------------------------------------------------------------
(* Generators.  Each is the whole handler: build the config models,        *)
(* assemble, open the output file, dump, return the preview.               *)

\* a call that is no rollback starts no subprocess loop
NoRollbackState ==
    /\ results' = <<>>
    /\ origin' = <<>>
    /\ idx' = 0
    /\ created' = {}
    /\ pc' = "done"
    /\ UNCHANGED <<asm, inflight>>

\* a subscript args[key] raised KeyError before anything was written
RaiseKeyError(key) ==
    /\ ret' = Raised("KeyError", "'" \o key \o "'")
    /\ experiment' = NoDocument
    /\ wrote' = {}
    /\ UNCHANGED fs

\* faulty variant: the document goes to a fixed path, whatever output_file is
WriteAndReturn_elsewhere(doc, output_file, message) ==
    LET text == json_dumps(doc)
        target == "./experiment.json"
    IN /\ experiment' = doc
       /\ wrote' = {target}
       /\ fs' = [p \in DOMAIN fs \cup {target} |-> IF p = target THEN text ELSE fs[p]]
       /\ ret' = Returned(message \o ": " \o output_file
                          \o "\n\nExperiment preview:\n" \o text)

\* faulty variant: the file is opened for appending
WriteAndReturn_append(doc, output_file, message) ==
    LET text == json_dumps(doc)
    IN /\ experiment' = doc
       /\ IF CanOpenForWrite(output_file)
          THEN /\ wrote' = {output_file}
               /\ fs' = [p \in DOMAIN fs \cup {output_file} |->
                           IF p # output_file THEN fs[p]
                           ELSE IF p \in DOMAIN fs THEN fs[p] \o text ELSE text]
               /\ ret' = Returned(message \o ": " \o output_file
                                  \o "\n\nExperiment preview:\n" \o text)
          ELSE /\ wrote' = {}
               /\ UNCHANGED fs
               /\ ret' = Raised("FileNotFoundError",
                                "[Errno 2] No such file or directory: '" \o output_file \o "'")

\* with open(output_file, "w") as f: json.dump(experiment, f, indent=2); return [...]
\* (text is the serialization of doc, the same for the file and the preview)
WriteAndReturn(doc, output_file, message) ==
    \E text \in {json_dumps(doc)} :
       /\ experiment' = doc
       /\ IF CanOpenForWrite(output_file)
          THEN /\ wrote' = {output_file}
               /\ fs' = [p \in DOMAIN fs \cup {output_file} |->
                           IF p = output_file THEN text ELSE fs[p]]
               /\ ret' = Returned(message \o ": " \o output_file
                                  \o "\n\nExperiment preview:\n" \o text)
          ELSE /\ wrote' = {}
               /\ UNCHANGED fs
               /\ ret' = Raised("FileNotFoundError",
                                "[Errno 2] No such file or directory: '" \o output_file \o "'")

\* faulty variant: the probe is added whenever the key is present
HealthCheckProbes_present(args) ==
    IF Has(args, "health_check_url")
    THEN <<ProbeConfig("health_check", "chaoslib.provider.http", "get",
                       PyDict(<<[k |-> "url", v |-> Item(args, "health_check_url")],
                                [k |-> "expected_status", v |-> PyInt(200)]>>))>>
    ELSE <<>>

\* the health-check probe list of the AZ generators
HealthCheckProbes(args) ==
    IF Truthy(Get(args, "health_check_url", PyStr("")))
    THEN <<ProbeConfig("health_check", "chaoslib.provider.http", "get",
                       PyDict(<<[k |-> "url", v |-> Item(args, "health_check_url")],
                                [k |-> "expected_status", v |-> PyInt(200)]>>))>>
    ELSE <<>>

\* faulty variant: the rollback always names the default state file
RecoverAz_default(name, module, args, default) ==
    ActionConfig(name, module, "recover_az", PyDict(<<[k |-> "state_path", v |-> PyStr(default)]>>))

\* the rollback step: recover_az of `module` on args.get("state_path", default)
RecoverAz(name, module, args, default) ==
    ActionConfig(name, module, "recover_az",
                 PyDict(<<[k |-> "state_path", v |-> Get(args, "state_path", PyStr(default))]>>))

generate_az_failure_experiment(args) ==
    LET missing == FirstMissing(args, <<"title", "az">>)
        config == ExperimentConfig(Item(args, "title"),
                                   PyStr("AZ failure test for " \o Format(Item(args, "az"))),
                                   Get(args, "aws_region", PyStr("us-east-1")))
        probes == HealthCheckProbes(args)
        actions == <<ActionConfig("fail_az", "azchaosaws.ec2.actions", "fail_az",
                        PyDict(<<[k |-> "az", v |-> Item(args, "az")],
                                 [k |-> "dry_run", v |-> Get(args, "dry_run", PyBool(FALSE))],
                                 [k |-> "failure_type",
                                  v |-> Get(args, "failure_type", PyStr("network"))],
                                 [k |-> "state_path",
                                  v |-> Get(args, "state_path", PyStr("./fail_az.ec2.json"))]>>))>>
        rollbacks == <<RecoverAz("recover_az", "azchaosaws.ec2.actions", args,
                                 "./fail_az.ec2.json")>>
    IN IF missing # "" THEN RaiseKeyError(missing)
       ELSE WriteAndReturn(generate_experiment_json(config, probes, actions, rollbacks),
                           Get(args, "output_file", PyStr("./az-failure-experiment.json")).v,
                           "Generated AZ failure experiment")

generate_asg_az_failure_experiment(args) ==
    LET missing == FirstMissing(args, <<"title", "az">>)
        config == ExperimentConfig(Item(args, "title"),
                                   PyStr("ASG AZ failure test for " \o Format(Item(args, "az"))),
                                   Get(args, "aws_region", PyStr("us-east-1")))
        probes == HealthCheckProbes(args)
        default_tags == PyList(<<PyDict(<<[k |-> "Key", v |-> PyStr("AZ_FAILURE")],
                                          [k |-> "Value", v |-> PyStr("True")]>>)>>)
        actions == <<ActionConfig("fail_asg_az", "azchaosaws.asg.actions", "fail_az",
                        PyDict(<<[k |-> "az", v |-> Item(args, "az")],
                                 [k |-> "dry_run", v |-> Get(args, "dry_run", PyBool(FALSE))],
                                 [k |-> "tags", v |-> Get(args, "asg_tags", default_tags)],
                                 [k |-> "state_path",
                                  v |-> Get(args, "state_path", PyStr("./fail_az.asg.json"))]>>))>>
        rollbacks == <<RecoverAz("recover_asg_az", "azchaosaws.asg.actions", args,
                                 "./fail_az.asg.json")>>
    IN IF missing # "" THEN RaiseKeyError(missing)
       ELSE WriteAndReturn(generate_experiment_json(config, probes, actions, rollbacks),
                           Get(args, "output_file", PyStr("./asg-az-failure-experiment.json")).v,
                           "Generated ASG AZ failure experiment")

\* the items of action_args, in the order the generator inserts them
RECURSIVE TruthyItems(_, _)
TruthyItems(args, keys) ==
    IF keys = <<>> THEN <<>>
    ELSE IF Has(args, Head(keys)) /\ Truthy(Item(args, Head(keys)))
         THEN <<[k |-> Head(keys), v |-> Item(args, Head(keys))]>>
              \o TruthyItems(args, Tail(keys))
         ELSE TruthyItems(args, Tail(keys))

\* faulty variant: the EC2 generator adds the health probe of the AZ generators
Ec2Probes_health(args) == HealthCheckProbes(args)

\* the probes the EC2 generator passes to the assembler: generate_experiment_json(config, [], ...)
Ec2Probes(args) == <<>>

generate_ec2_actions_experiment(args) ==
    LET missing == FirstMissing(args, <<"title", "action_type">>)
        action_type == Format(Item(args, "action_type"))
        config == ExperimentConfig(Item(args, "title"),
                                   PyStr("EC2 " \o action_type \o " experiment"),
                                   Get(args, "aws_region", PyStr("us-east-1")))
        action_args == PyDict(TruthyItems(args, <<"instance_ids", "filters", "az">>))
        actions == <<ActionConfig(action_type, "chaosaws.ec2.actions", action_type,
                                  action_args)>>
    IN IF missing # "" THEN RaiseKeyError(missing)
       ELSE WriteAndReturn(generate_experiment_json(config, Ec2Probes(args), actions, <<>>),
                           Get(args, "output_file", PyStr("./ec2-chaos-experiment.json")).v,
                           "Generated EC2 " \o action_type \o " experiment")

\* the document generate_generic_experiment assembles from args that hold a title
GenericDocument(args, module, func) ==
    LET config == ExperimentConfig(Item(args, "title"),
                                   PyStr(func \o " experiment"),
                                   Get(args, "aws_region", PyStr("us-east-1")))
        action_args == PyDict(Without(args, {"title", "output_file", "aws_region"}))
        actions == <<ActionConfig(func, module, func, action_args)>>
    IN generate_experiment_json(config, <<>>, actions, <<>>)

\* output_file = args.get("output_file", f"./{func}-experiment.json")
GenericOutputFile(args, func) ==
    Get(args, "output_file", PyStr("./" \o func \o "-experiment.json")).v

generate_generic_experiment(args, module, func) ==
    LET missing == FirstMissing(args, <<"title">>)
    IN IF missing # "" THEN RaiseKeyError(missing)
       ELSE WriteAndReturn(GenericDocument(args, module, func),
                           GenericOutputFile(args, func),
                           "Generated " \o func \o " experiment")

\* faulty variant: the CPU command ignores cpu_cores and duration_seconds
StressCommands_fixed(args, stress_type) ==
    IF stress_type = "cpu" THEN <<PyStr("stress --cpu 2 --timeout 300s")>>
    ELSE <<PyStr("echo 'Unknown stress type'")>>

\* faulty variant: the cleanup removes the fill file of the default path
StressCommands_leftover(args, stress_type) ==
    IF stress_type = "disk"
    THEN LET size_mb == Format(Get(args, "size_mb", PyInt(1024)))
             duration == Format(Get(args, "duration_seconds", PyInt(600)))
             path == Format(Get(args, "path", PyStr("/tmp")))
         IN <<PyStr("dd if=/dev/zero of=" \o path \o "/chaos_fill bs=1M count=" \o size_mb),
              PyStr("sleep " \o duration),
              PyStr("rm -f /tmp/chaos_fill")>>
    ELSE <<PyStr("echo 'Unknown stress type'")>>

\* the shell commands of the SSM stress generators
StressCommands(args, stress_type) ==
    IF stress_type = "cpu"
    THEN <<PyStr("stress --cpu " \o Format(Get(args, "cpu_cores", PyInt(2)))
                 \o " --timeout " \o Format(Get(args, "duration_seconds", PyInt(300)))
                 \o "s")>>
    ELSE IF stress_type = "disk"
    THEN LET size_mb == Format(Get(args, "size_mb", PyInt(1024)))
             duration == Format(Get(args, "duration_seconds", PyInt(600)))
             path == Format(Get(args, "path", PyStr("/tmp")))
         IN <<PyStr("dd if=/dev/zero of=" \o path \o "/chaos_fill bs=1M count=" \o size_mb),
              PyStr("sleep " \o duration),
              PyStr("rm -f " \o path \o "/chaos_fill")>>
    ELSE <<PyStr("echo 'Unknown stress type'")>>

generate_ssm_stress_experiment(args, stress_type) ==
    LET missing == FirstMissing(args, <<"title", "instance_ids">>)
        config == ExperimentConfig(Item(args, "title"),
                                   PyStr("SSM " \o stress_type \o " stress experiment"),
                                   Get(args, "aws_region", PyStr("us-east-1")))
        actions == <<ActionConfig("ssm_" \o stress_type \o "_stress",
                        "chaosaws.ssm.actions", "send_command",
                        PyDict(<<[k |-> "instance_ids", v |-> Item(args, "instance_ids")],
                                 [k |-> "document_name", v |-> PyStr("AWS-RunShellScript")],
                                 [k |-> "parameters",
                                  v |-> PyDict(<<[k |-> "commands",
                                                  v |-> PyList(StressCommands(args, stress_type))]>>)]>>))>>
    IN IF missing # "" THEN RaiseKeyError(missing)
       ELSE WriteAndReturn(generate_experiment_json(config, <<>>, actions, <<>>),
                           Get(args, "output_file",
                               PyStr("./ssm-" \o stress_type \o "-stress-experiment.json")).v,
                           "Generated SSM " \o stress_type \o " stress experiment")

----------------------------------------------------------------------------
(* Subprocess runner *)

\* os.getcwd()
ProcessCwd == "."

\* the exit code, stdout and stderr the CLI can end with, by subcommand
Completions(cmd) ==
    IF cmd[2] = "validate"
    THEN {<<rc, out, err>> : rc \in {0, 1, 2},
                             out \in {"", "experiment syntax and semantic look valid"},
                             err \in {"", "Traceback"}}
    ELSE {<<0, "", "">>, <<0, "Experiment ended", "">>,
          <<1, "", "Traceback">>, <<1, "Experiment ended", "Traceback">>}

\* what subprocess.run(cmd, cwd=cwd, timeout=timeout) can do: the CLI runs to an exit
\* code, exceeds the timeout (TimeoutExpired), or cannot be started (OSError)
subprocess_run(cmd, cwd, timeout) ==
    IF cwd \notin ExistingDirs
    THEN {[kind |-> "oserror", returncode |-> 0, stdout |-> "", stderr |-> "",
           error |-> "[Errno 2] No such file or directory: '" \o cwd \o "'"]}
    ELSE {[kind |-> "completed", returncode |-> o[1], stdout |-> o[2], stderr |-> o[3],
           error |-> ""] : o \in Completions(cmd)}
         \cup {[kind |-> "timeout", returncode |-> 0, stdout |-> "", stderr |-> "",
                error |-> "Command timed out after " \o ToString(timeout) \o " seconds"],
               [kind |-> "oserror", returncode |-> 0, stdout |-> "", stderr |-> "",
                error |-> "[Errno 2] No such file or directory: 'chaos'"]}

\* one subprocess.run call: its arguments, the file it points the CLI at, and how
\* it ended
Invocation(cmd, cwd, timeout, input, result) ==
    [cmd |-> cmd, cwd |-> cwd, timeout |-> timeout, input |-> input, result |-> result]

\* faulty variant: a timed-out command is started once more
Attempts_retry(invocation) ==
    IF invocation.result.kind = "timeout" THEN <<invocation, invocation>>
    ELSE <<invocation>>

\* the subprocess.run calls made for one item: the call sits in no loop
Attempts(invocation) == <<invocation>>

\* faulty variant: the experiment file is consumed by the run
RunnerFrame_consuming ==
    /\ experiment' = NoDocument
    /\ wrote' = {}
    /\ fs' = [p \in DOMAIN fs \ {"./exp.json"} |-> fs[p]]
    /\ NoRollbackState

\* run_experiment and validate_experiment write nothing and loop over nothing
RunnerFrame ==
    /\ experiment' = NoDocument
    /\ wrote' = {}
    /\ UNCHANGED fs
    /\ NoRollbackState

\* faulty variant: only the timeout is caught, a failure to start the CLI propagates
RunOutcome_uncaught(result) ==
    CASE result.kind = "completed" ->
            Returned("Exit code: " \o ToString(result.returncode)
                     \o "\n\nSTDOUT:\n" \o result.stdout
                     \o "\n\nSTDERR:\n" \o result.stderr)
      [] result.kind = "timeout" ->
            Returned("Error: Experiment execution timed out after 1 hour")
      [] OTHER -> Raised("FileNotFoundError", result.error)

\* what run_experiment returns for each way subprocess.run ends
RunOutcome(result) ==
    CASE result.kind = "completed" ->
            Returned("Exit code: " \o ToString(result.returncode)
                     \o "\n\nSTDOUT:\n" \o result.stdout
                     \o "\n\nSTDERR:\n" \o result.stderr)
      [] result.kind = "timeout" ->
            Returned("Error: Experiment execution timed out after 1 hour")
      [] OTHER -> Returned("Error running experiment: " \o result.error)

\* faulty variant: the verdict follows stderr instead of the exit code
ValidateOutcome_stderr(result) ==
    IF result.kind = "completed"
    THEN Returned("Validation result: "
                  \o (IF result.stderr = "" THEN "PASSED" ELSE "FAILED")
                  \o "\n\n" \o result.stdout \o "\n" \o result.stderr)
    ELSE Returned("Error validating experiment: " \o result.error)

\* what validate_experiment returns for each way subprocess.run ends
ValidateOutcome(result) ==
    IF result.kind = "completed"
    THEN Returned("Validation result: "
                  \o (IF result.returncode = 0 THEN "PASSED" ELSE "FAILED")
                  \o "\n\n" \o result.stdout \o "\n" \o result.stderr)
    ELSE Returned("Error validating experiment: " \o result.error)

\* faulty variant: a dry run is passed on to the CLI
RunCommand_dry(args) ==
    <<"chaos", "run">>
    \o (IF Truthy(Get(args, "dry_run", PyBool(FALSE))) THEN <<"--dry">> ELSE <<>>)
    \o <<Item(args, "experiment_file").v>>
    \o (IF Truthy(Get(args, "journal_path", PyStr("")))
        THEN <<"--journal-path", Item(args, "journal_path").v>>
        ELSE <<>>)

\* cmd = ["chaos", "run", experiment_file], extended when args.get("journal_path")
RunCommand(args) ==
    <<"chaos", "run", Item(args, "experiment_file").v>>
    \o (IF Truthy(Get(args, "journal_path", PyStr("")))
        THEN <<"--journal-path", Item(args, "journal_path").v>>
        ELSE <<>>)

run_experiment(args) ==
    LET experiment_file == Item(args, "experiment_file").v
        cmd == RunCommand(args)
        cwd == Get(args, "working_directory", PyStr(ProcessCwd)).v
    IN /\ RunnerFrame
       /\ IF ~Has(args, "experiment_file")
          THEN /\ ret' = Raised("KeyError", "'experiment_file'")
               /\ spawned' = <<>>
          ELSE IF ~Exists(experiment_file)
          THEN /\ ret' = Returned("Error: Experiment file not found: " \o experiment_file)
               /\ spawned' = <<>>
          ELSE \E result \in subprocess_run(cmd, cwd, 3600) :
                 /\ spawned' = Attempts(Invocation(cmd, cwd, 3600, ReadFile(experiment_file), result))
                 /\ ret' = RunOutcome(result)

validate_experiment(args) ==
    LET experiment_file == Item(args, "experiment_file").v
        cmd == <<"chaos", "validate", experiment_file>>
    IN /\ RunnerFrame
       /\ IF ~Has(args, "experiment_file")
          THEN /\ ret' = Raised("KeyError", "'experiment_file'")
               /\ spawned' = <<>>
          ELSE IF ~Exists(experiment_file)
          THEN /\ ret' = Returned("Error: Experiment file not found: " \o experiment_file)
               /\ spawned' = <<>>
          ELSE \E result \in subprocess_run(cmd, ProcessCwd, 60) :
                 /\ spawned' = Attempts(Invocation(cmd, ProcessCwd, 60, ReadFile(experiment_file), result))
                 /\ ret' = ValidateOutcome(result)

\* rollback_from_state up to the loop: read the arguments, results = []
rollback_from_state(args) ==
    /\ experiment' = NoDocument
    /\ wrote' = {}
    /\ spawned' = <<>>
    /\ results' = <<>>
    /\ origin' = <<>>
    /\ created' = {}
    /\ UNCHANGED <<fs, asm, inflight>>
    /\ IF ~Has(args, "state_files")
       THEN /\ ret' = Raised("KeyError", "'state_files'")
            /\ pc' = "done"
            /\ idx' = 0
       ELSE /\ ret' = NoResult
            /\ pc' = "rollback_loop"
            /\ idx' = 1

\* faulty variant: "asg" is looked for before "ec2"
RollbackModule_asg_first(state_file) ==
    IF Contains(state_file, "asg") THEN "azchaosaws.asg.actions"
    ELSE IF Contains(state_file, "ec2") THEN "azchaosaws.ec2.actions"
    ELSE ""

\* the module a state file is routed to, "" when it is routed nowhere
RollbackModule(state_file) ==
    IF Contains(state_file, "ec2") THEN "azchaosaws.ec2.actions"
    ELSE IF Contains(state_file, "asg") THEN "azchaosaws.asg.actions"
    ELSE ""

\* the temporary rollback experiment
RollbackExperiment(state_file, module) ==
    PyDict(<<[k |-> "version", v |-> PyStr("1.0.0")],
             [k |-> "title", v |-> PyStr("Rollback from " \o state_file)],
             [k |-> "description", v |-> PyStr("Automated rollback")],
             [k |-> "method",
              v |-> PyList(<<PyDict(<<
                      [k |-> "type", v |-> PyStr("action")],
                      [k |-> "name", v |-> PyStr("recover_az")],
                      [k |-> "provider",
                       v |-> PyDict(<<[k |-> "type", v |-> PyStr("python")],
                                      [k |-> "module", v |-> PyStr(module)],
                                      [k |-> "func", v |-> PyStr("recover_az")],
                                      [k |-> "arguments",
                                       v |-> PyDict(<<[k |-> "state_path",
                                                       v |-> PyStr(state_file)]>>)]>>)]>>)>>)]>>)

\* the name tempfile.NamedTemporaryFile(suffix='.json', delete=False) gives: unused
TempName(n) == "/tmp/tmp" \o ToString(n) \o ".json"

FreshTempName ==
    TempName(CHOOSE n \in 1..(Cardinality(DOMAIN fs) + 1) :
                /\ TempName(n) \notin DOMAIN fs
                /\ \A m \in 1..(n - 1) : TempName(m) \in DOMAIN fs)

\* the outcomes of creating and writing the temporary file
TempFileOutcomes == {"written", "not_created", "write_failed"}

\* results.append(text), by the iteration of state file idx
AppendResults(texts) ==
    /\ results' = results \o texts
    /\ origin' = origin \o [i \in 1..Len(texts) |-> idx]

\* faulty variant: a missing state file is skipped without a word
NotFoundEntries_silent(state_file) == <<>>

\* the entry for a state file that does not exist
NotFoundEntries(state_file) == <<"Warning: State file not found: " \o state_file>>

\* faulty variant: stdout and stderr are never reported
CompletedEntries_terse(state_file, result) ==
    <<"Rollback from " \o state_file \o ": "
        \o (IF result.returncode = 0 THEN "SUCCESS" ELSE "FAILED")>>

\* the entries one finished subprocess adds for a state file
CompletedEntries(state_file, result) ==
    <<"Rollback from " \o state_file \o ": "
        \o (IF result.returncode = 0 THEN "SUCCESS" ELSE "FAILED")>>
    \o (IF result.stdout # "" THEN <<"Output: " \o result.stdout>> ELSE <<>>)
    \o (IF result.stderr # "" THEN <<"Errors: " \o result.stderr>> ELSE <<>>)

\* one iteration of `for state_file in state_files`
RollbackStateFile ==
    LET args == call.arguments
        state_files == Item(args, "state_files").v
        state_file == state_files[idx].v
        cwd == Get(args, "working_directory", PyStr(ProcessCwd)).v
        module == RollbackModule(state_file)
        temp_file == FreshTempName
    IN /\ pc = "rollback_loop"
       /\ idx <= Len(state_files)
       /\ idx' = idx + 1
       /\ UNCHANGED <<pc, call, ret, experiment, asm, fs0, ncalls, inflight>>
       /\ IF ~Exists(state_file)
          THEN /\ AppendResults(NotFoundEntries(state_file))
               /\ UNCHANGED <<fs, wrote, spawned, created>>
          ELSE IF module = ""
          THEN /\ AppendResults(<<"Warning: Unknown state file type: " \o state_file>>)
               /\ UNCHANGED <<fs, wrote, spawned, created>>
          ELSE \E written \in TempFileOutcomes :
                 IF written = "not_created"
                 THEN /\ AppendResults(<<"Error rolling back " \o state_file
                                         \o ": [Errno 2] No usable temporary directory">>)
                      /\ UNCHANGED <<fs, wrote, spawned, created>>
                 ELSE IF written = "write_failed"
                 THEN /\ AppendResults(<<"Error rolling back " \o state_file
                                         \o ": [Errno 28] No space left on device">>)
                      /\ fs' = [p \in DOMAIN fs \cup {temp_file} |->
                                  IF p = temp_file THEN "" ELSE fs[p]]
                      /\ wrote' = wrote \cup {temp_file}
                      /\ created' = created \cup {temp_file}
                      /\ UNCHANGED spawned
                 ELSE \E result \in subprocess_run(<<"chaos", "run", temp_file>>, cwd, 600) :
                        /\ spawned' = spawned \o Attempts(
                              Invocation(<<"chaos", "run", temp_file>>, cwd, 600,
                                         json_dumps(RollbackExperiment(state_file, module)),
                                         result))
                        /\ wrote' = wrote \cup {temp_file}
                        /\ created' = created \cup {temp_file}
                        \* written, then removed by os.unlink in the finally clause
                        /\ UNCHANGED fs
                        /\ IF result.kind = "completed"
                           THEN AppendResults(CompletedEntries(state_file, result))
                           ELSE AppendResults(<<"Error rolling back " \o state_file
                                                \o ": " \o result.error>>)

\* "\n".join(texts)
RECURSIVE JoinLines(_)
JoinLines(texts) ==
    IF texts = <<>> THEN ""
    ELSE IF Len(texts) = 1 THEN Head(texts)
    ELSE Head(texts) \o "\n" \o JoinLines(Tail(texts))

\* after the loop: return [{"type": "text", "text": "\n".join(results)}]
RollbackReturn ==
    /\ pc = "rollback_loop"
    /\ idx > Len(Item(call.arguments, "state_files").v)
    /\ pc' = "done"
    /\ ret' = Returned(JoinLines(results))
    /\ UNCHANGED <<fs, call, experiment, wrote, spawned, results, origin, idx, created,
                   asm, fs0, ncalls, inflight>>

----------------------------------------------------------------------------
(* Dispatcher *)

\* a generator call starts no subprocess and no rollback loop
GeneratorFrame ==
    /\ spawned' = <<>>
    /\ NoRollbackState

Generic(arguments, module, func) ==
    generate_generic_experiment(arguments, module, func) /\ GeneratorFrame

\* faulty variant: an unlisted name falls through to the generic generator
UnknownTool_fallback(name, arguments) ==
    Generic(arguments, "chaosaws.ec2.actions", name)

\* else: raise ValueError(f"Unknown tool: {name}")
UnknownTool(name, arguments) ==
    /\ ret' = Raised("ValueError", "Unknown tool: " \o name)
    /\ experiment' = NoDocument
    /\ wrote' = {}
    /\ UNCHANGED fs
    /\ GeneratorFrame

\* the (module, func) each generic branch of call_tool passes on
GenericTarget(name) ==
    CASE name = "chaos_isolate_az_network" ->
            [module |-> "azchaosaws.ec2.actions", func |-> "isolate_az_network"]
      [] name = "chaos_simulate_az_partition" ->
            [module |-> "azchaosaws.ec2.actions", func |-> "simulate_az_partition"]
      [] name = "chaos_stop_instances" ->
            [module |-> "chaosaws.ec2.actions", func |-> "stop_instances"]
      [] name = "chaos_terminate_instances" ->
            [module |-> "chaosaws.ec2.actions", func |-> "terminate_instances"]
      [] name = "chaos_reboot_instances" ->
            [module |-> "chaosaws.ec2.actions", func |-> "reboot_instances"]
      [] name = "chaos_detach_volumes" ->
            [module |-> "chaosaws.ec2.actions", func |-> "detach_volumes"]
      [] name = "chaos_suspend_asg_processes" ->
            [module |-> "chaosaws.asg.actions", func |-> "suspend_processes"]
      [] name = "chaos_terminate_random_instances" ->
            [module |-> "chaosaws.asg.actions", func |-> "terminate_random_instances"]
      [] name = "chaos_ssm_send_command" ->
            [module |-> "chaosaws.ssm.actions", func |-> "send_command"]
      [] name = "chaos_ssm_kill_process" ->
            [module |-> "chaosaws.ssm.actions", func |-> "kill_process"]
      [] name = "chaos_modify_security_groups" ->
            [module |-> "chaosaws.ec2.actions", func |-> "modify_security_groups"]
      [] name = "chaos_simulate_network_latency" ->
            [module |-> "chaosaws.ec2.actions", func |-> "simulate_network_latency"]
      [] name = "chaos_reboot_db_instance" ->
            [module |-> "chaosaws.rds.actions", func |-> "reboot_db_instance"]
      [] name = "chaos_failover_db_cluster" ->
            [module |-> "chaosaws.rds.actions", func |-> "failover_db_cluster"]
      [] name = "chaos_deregister_targets" ->
            [module |-> "chaosaws.elbv2.actions", func |-> "deregister_targets"]

\* faulty variant: the dispatcher lacks the branches of the listed EC2 tools
GenericTools_fewer ==
    {"chaos_isolate_az_network", "chaos_simulate_az_partition",
     "chaos_suspend_asg_processes", "chaos_ssm_send_command"}

\* the tools served by the generic generator
GenericTools ==
    {"chaos_isolate_az_network", "chaos_simulate_az_partition", "chaos_stop_instances",
     "chaos_terminate_instances", "chaos_reboot_instances", "chaos_detach_volumes",
     "chaos_suspend_asg_processes", "chaos_terminate_random_instances", "chaos_ssm_send_command",
     "chaos_ssm_kill_process", "chaos_modify_security_groups", "chaos_simulate_network_latency",
     "chaos_reboot_db_instance", "chaos_failover_db_cluster", "chaos_deregister_targets"}

call_tool(name, arguments) ==
    CASE name = "chaos_generate_az_failure_experiment" ->
            generate_az_failure_experiment(arguments) /\ GeneratorFrame
      [] name = "chaos_generate_asg_az_failure_experiment" ->
            generate_asg_az_failure_experiment(arguments) /\ GeneratorFrame
      [] name \in GenericTools ->
            Generic(arguments, GenericTarget(name).module, GenericTarget(name).func)
      [] name = "chaos_ssm_stress_cpu" ->
            generate_ssm_stress_experiment(arguments, "cpu") /\ GeneratorFrame
      [] name = "chaos_ssm_fill_disk" ->
            generate_ssm_stress_experiment(arguments, "disk") /\ GeneratorFrame
      [] name = "chaos_generate_ec2_actions_experiment" ->
            generate_ec2_actions_experiment(arguments) /\ GeneratorFrame
      [] name = "chaos_run_experiment" -> run_experiment(arguments)
      [] name = "chaos_validate_experiment" -> validate_experiment(arguments)
      [] name = "chaos_rollback_from_state" -> rollback_from_state(arguments)
      [] OTHER -> UnknownTool(name, arguments)

----------------------------------------------------------------------------
(* The calls the model makes *)

\* names that are not in the catalog
UnknownNames == {"chaos_stop_instance", "run_experiment"}

\* the state files a rollback is asked about; those of InitialFiles exist
StateFilePool ==
    {"./fail_az.ec2.json", "./fail_az.asg.json", "./asg-of-ec2.json", "./state.json",
     "./gone.ec2.json"}

StringPool(k) ==
    CASE k = "title" -> {"T"}
      [] k = "az" -> {"us-east-1a"}
      [] k = "vpc_id" -> {"vpc-1"}
      [] k = "process_name" -> {"nginx"}
      [] k = "action" -> {"revoke"}
      [] k = "db_instance_identifier" -> {"db-1"}
      [] k = "db_cluster_identifier" -> {"cluster-1"}
      [] k = "target_group_arn" -> {"arn:tg"}
      [] k = "action_type" -> {"stop_instances", "format_disk"}
      [] k = "health_check_url" -> {"", "http://app/health"}
      [] k = "state_path" -> {"./state.json"}
      [] k = "output_file" -> {"./out.json", "/no/such/dir/out.json"}
      [] k = "aws_region" -> {"eu-west-1"}
      [] k = "experiment_file" -> {"./exp.json", "./missing.json"}
      [] k = "journal_path" -> {"", "./journal.json"}
      [] k = "working_directory" -> {"/var/chaos", "/no/such/dir"}
      [] k = "failure_type" -> {"power"}
      [] k = "path" -> {"/var/tmp"}
      [] OTHER -> {}

IntPool(k) ==
    CASE k = "cpu_cores" -> {4}
      [] k = "size_mb" -> {2048}
      [] k = "duration_seconds" -> {45}
      [] OTHER -> {}

ListPool(k) ==
    CASE k = "instance_ids" -> {<<PyStr("i-1"), PyStr("i-2")>>}
      [] k = "asg_names" -> {<<PyStr("asg-1")>>}
      [] k = "commands" -> {<<PyStr("uptime")>>}
      [] k = "group_ids" -> {<<PyStr("sg-1")>>}
      [] k = "state_files" -> SeqsUpTo({PyStr(p) : p \in StateFilePool}, MaxFiles)
      [] OTHER -> {}

\* the values the model supplies for argument k
Pool(k) ==
    {PyStr(x) : x \in StringPool(k)} \cup {PyList(x) : x \in ListPool(k)}
    \cup {PyInt(x) : x \in IntPool(k)}
    \cup (IF k = "dry_run" THEN {PyBool(TRUE)} ELSE {})

\* the dicts that give each of `keys`, in this order, a value of its pool or leave it out
RECURSIVE DictsOver(_)
DictsOver(keys) ==
    IF keys = <<>> THEN {<<>>}
    ELSE LET rest == DictsOver(Tail(keys))
         IN rest \cup {<<[k |-> Head(keys), v |-> x]>> \o d : x \in Pool(Head(keys)), d \in rest}

\* calls that carry a key outside the tool's declared properties, or strings with
\* a quote, a backslash or a line feed
ExtraArgs(name) ==
    IF name = "chaos_generate_ec2_actions_experiment"
    THEN {<<[k |-> "title", v |-> PyStr("T")],
            [k |-> "action_type", v |-> PyStr("stop_instances")],
            [k |-> "health_check_url", v |-> x]>> : x \in Pool("health_check_url")}
    ELSE IF name = "chaos_ssm_kill_process"
    THEN {<<[k |-> "title", v |-> PyStr("Kill \"nginx\"")],
            [k |-> "instance_ids", v |-> PyList(<<PyStr("i-1")>>)],
            [k |-> "process_name", v |-> PyStr("C:\\srv\\nginx\n")]>>}
    ELSE {}

\* d holds required fields of the tool and no other key
RequiredOnly(name, d) ==
    \A i \in 1..Len(d) : \E j \in 1..Len(Tool(name).required) : Tool(name).required[j] = d[i].k

\* the argument mappings the model calls a tool with: every choice of the tool's
\* properties with a writable output path or none; the required fields alone with
\* an output path that cannot be opened; and the required fields but one
ArgsFor(name) ==
    IF name \in RunnerTools THEN DictsOver(Tool(name).properties)
    ELSE IF name \in ToolNames
    THEN {d \in DictsOver(SelectSeq(Tool(name).properties, LAMBDA k : k # "dry_run")) :
            /\ MissingRequired(name, d) # {}
                 => (RequiredOnly(name, d) /\ Cardinality(MissingRequired(name, d)) = 1)
            /\ (Has(d, "output_file") /\ ~CanOpenForWrite(Item(d, "output_file").v))
                 => RequiredOnly(name, Without(d, {"output_file"}))}
         \cup ExtraArgs(name)
    ELSE DictsOver(<<"title", "output_file", "experiment_file">>)

\* a document left by an earlier generation
StaleDocument ==
    generate_experiment_json(
        ExperimentConfig(PyStr("Earlier"), PyStr("stop_instances experiment"),
                         PyStr("us-east-1")),
        <<>>,
        <<ActionConfig("stop_instances", "chaosaws.ec2.actions", "stop_instances",
                       PyDict(<<>>))>>,
        <<>>)

\* the files present before the first call: an experiment, the state files of
\* StateFilePool except ./gone.ec2.json, and possibly an earlier ./out.json
InitialFiles ==
    LET base == [p \in {"./exp.json"} \cup (StateFilePool \ {"./gone.ec2.json"}) |->
                    IF p = "./exp.json" THEN json_dumps(StaleDocument) ELSE "{}"]
    IN {base, ("./out.json" :> json_dumps(StaleDocument)) @@ base}

NoAssembly ==
    [called |-> FALSE, config |-> ExperimentConfig(PyStr(""), PyStr(""), PyStr("")),
     probes |-> <<>>, actions |-> <<>>, rollbacks |-> <<>>]

\* the state before the first call, but for the assembler's inputs
InitFiles ==
    /\ fs \in InitialFiles
    /\ fs0 = fs
    /\ pc = "idle"
    /\ call = [name |-> "", arguments |-> <<>>]
    /\ ret = NoResult
    /\ experiment = NoDocument
    /\ wrote = {}
    /\ spawned = <<>>
    /\ results = <<>>
    /\ origin = <<>>
    /\ idx = 0
    /\ created = {}
    /\ ncalls = 0
    /\ inflight = <<>>

Init ==
    /\ InitFiles
    /\ asm = NoAssembly

\* one request: call_tool(name, arguments) for a name of `names`
Call(names) ==
    /\ pc = "idle"
    /\ ncalls < MaxCalls
    /\ \E name \in names : \E arguments \in ArgsFor(name) :
         /\ call' = [name |-> name, arguments |-> arguments]
         /\ ncalls' = ncalls + 1
         /\ fs0' = fs
         /\ call_tool(name, arguments)

\* the response has been sent; the server awaits the next request with only the
\* filesystem carried over
NextRequest ==
    /\ pc = "done"
    /\ pc' = "idle"
    /\ call' = [name |-> "", arguments |-> <<>>]
    /\ ret' = NoResult
    /\ experiment' = NoDocument
    /\ wrote' = {}
    /\ spawned' = <<>>
    /\ results' = <<>>
    /\ origin' = <<>>
    /\ idx' = 0
    /\ created' = {}
    /\ fs0' = fs
    /\ UNCHANGED <<fs, asm, ncalls, inflight>>

SpecializedTools ==
    {"chaos_generate_az_failure_experiment", "chaos_generate_asg_az_failure_experiment",
     "chaos_generate_ec2_actions_experiment", "chaos_ssm_stress_cpu", "chaos_ssm_fill_disk"}

CallSpecialized == Call(SpecializedTools)
CallGeneric == Call(GenerationTools \ SpecializedTools)
CallUnknown == Call(UnknownNames)
CallRun == Call({"chaos_run_experiment"})
CallValidate == Call({"chaos_validate_experiment"})
CallRollback == Call({"chaos_rollback_from_state"})

\* generation and dispatch
Next == CallSpecialized \/ CallGeneric \/ CallUnknown \/ NextRequest

Spec == Init /\ [][Next]_vars

\* the subprocess runners
NextExec ==
    CallRun \/ CallValidate \/ CallRollback \/ RollbackStateFile \/ RollbackReturn
    \/ NextRequest

\* the runner never opens ./out.json: its requests start without it
InitExec ==
    /\ Init
    /\ "./out.json" \notin DOMAIN fs

SpecExec == InitExec /\ [][NextExec]_vars

----------------------------------------------------------------------------
(* Generation calls in sequence *)

\* one tool of each generation path
SeqTools ==
    {"chaos_generate_az_failure_experiment", "chaos_generate_asg_az_failure_experiment",
     "chaos_generate_ec2_actions_experiment", "chaos_stop_instances",
     "chaos_ssm_stress_cpu"}

\* complete argument mappings that write to ./out.json or to the tool's default path
SeqArgs(name) ==
    {d \in ArgsFor(name) :
        /\ MissingRequired(name, d) = {}
        /\ \A i \in 1..Len(d) :
              \/ \E j \in 1..Len(Tool(name).required) : Tool(name).required[j] = d[i].k
              \/ d[i] = [k |-> "output_file", v |-> PyStr("./out.json")]
              \/ d[i].k \in {"health_check_url", "instance_ids", "cpu_cores"}}

\* one request of the sequence
CallSeq ==
    /\ pc = "idle"
    /\ ncalls < MaxWrites
    /\ \E name \in SeqTools : \E arguments \in SeqArgs(name) :
         /\ call' = [name |-> name, arguments |-> arguments]
         /\ ncalls' = ncalls + 1
         /\ fs0' = fs
         /\ call_tool(name, arguments)

NextSeq == CallSeq \/ NextRequest

SpecSeq == Init /\ [][NextSeq]_vars

----------------------------------------------------------------------------
(* Every operation that writes a document, called once *)

\* complete argument mappings of a generation tool with or without ./out.json, and
\* the rollback's state files with the default working directory
WriteArgs(name) ==
    IF name \in GenerationTools
    THEN {d \in ArgsFor(name) :
            /\ MissingRequired(name, d) = {}
            /\ \A i \in 1..Len(d) :
                  \/ \E j \in 1..Len(Tool(name).required) : Tool(name).required[j] = d[i].k
                  \/ d[i] = [k |-> "output_file", v |-> PyStr("./out.json")]
                  \/ d[i].k \in {"aws_region", "state_path"}}
    ELSE {d \in ArgsFor(name) : ~Has(d, "working_directory")}

\* the first request
CallWrite ==
    /\ pc = "idle"
    /\ ncalls = 0
    /\ \E name \in GenerationTools \cup {"chaos_rollback_from_state"} :
         \E arguments \in WriteArgs(name) :
            /\ call' = [name |-> name, arguments |-> arguments]
            /\ ncalls' = ncalls + 1
            /\ fs0' = fs
            /\ call_tool(name, arguments)

NextWrites == CallWrite \/ RollbackStateFile \/ RollbackReturn

SpecWrites == Init /\ [][NextWrites]_vars

----------------------------------------------------------------------------
(* Every name dispatched once *)

\* the catalog's names and names outside it, some of them close to a listed one
DispatchNames ==
    ToolNames \cup UnknownNames \cup {"stop_instances", "CHAOS_RUN_EXPERIMENT"}

\* no arguments at all, or arguments that let a listed tool do its work
DispatchArgs(name) ==
    {<<>>} \cup (IF name \in GenerationTools THEN WriteArgs(name)
                ELSE IF name \in RunnerTools
                THEN {d \in ArgsFor(name) : ~Has(d, "working_directory")}
                ELSE ArgsFor(name))

CallDispatch ==
    /\ pc = "idle"
    /\ ncalls = 0
    /\ \E name \in DispatchNames : \E arguments \in DispatchArgs(name) :
         /\ call' = [name |-> name, arguments |-> arguments]
         /\ ncalls' = ncalls + 1
         /\ fs0' = fs
         /\ call_tool(name, arguments)

NextDispatch == CallDispatch \/ RollbackStateFile \/ RollbackReturn

SpecDispatch == Init /\ [][NextDispatch]_vars

----------------------------------------------------------------------------
(* Two generation requests in flight at once *)

\* each server process serves its own client over stdio; two of them may run in
\* the same directory
Processes == {1, 2}

\* the generic tools the two requests name
ConcurrentTools == {"chaos_stop_instances", "chaos_reboot_db_instance", "chaos_ssm_kill_process"}

\* complete arguments that name the output file
ConcurrentArgs(name) == {d \in WriteArgs(name) : Has(d, "output_file")}

\* file content after write() of `text` at offset 0 of a file that holds `old`
WriteAtStart(old, text) ==
    text \o (IF Len(old) > Len(text) THEN SubSeq(old, Len(text) + 1, Len(old)) ELSE "")

\* the text invocation inv writes and previews
DocumentText(inv) ==
    json_dumps(GenericDocument(inv.arguments, GenericTarget(inv.name).module,
                               GenericTarget(inv.name).func))

\* the path invocation inv opens
OutputFile(inv) == GenericOutputFile(inv.arguments, GenericTarget(inv.name).func)

\* faulty variant: a handler can be suspended between its statements
MayStep_suspended(i) == TRUE

\* the event loop of a process runs one handler at a time, and the generators
\* have no await that suspends them: invocation i takes a step only while no other
\* invocation of its process is between its open() and its return
MayStep(i) ==
    \A j \in DOMAIN inflight :
        (j # i /\ inflight[j].process = inflight[i].process)
        => inflight[j].at \in {"received", "returned"}

\* two requests for the same output file have arrived, at one process or at two
Receive ==
    /\ pc = "idle"
    /\ inflight = <<>>
    /\ \E n1 \in ConcurrentTools, n2 \in ConcurrentTools, process \in Processes :
         \E a1 \in ConcurrentArgs(n1), a2 \in ConcurrentArgs(n2) :
            inflight' = <<[name |-> n1, arguments |-> a1, process |-> 1,
                           at |-> "received", ret |-> NoResult],
                          [name |-> n2, arguments |-> a2, process |-> process,
                           at |-> "received", ret |-> NoResult]>>
    /\ UNCHANGED <<fs, pc, call, ret, experiment, wrote, spawned, results, origin, idx,
                   created, asm, fs0, ncalls>>

\* with open(output_file, "w") as f: the file is created or truncated
Open(i) ==
    /\ inflight[i].at = "received"
    /\ MayStep(i)
    /\ fs' = [p \in DOMAIN fs \cup {OutputFile(inflight[i])} |->
                IF p = OutputFile(inflight[i]) THEN "" ELSE fs[p]]
    /\ inflight' = [inflight EXCEPT ![i].at = "opened"]
    /\ UNCHANGED <<pc, call, ret, experiment, wrote, spawned, results, origin, idx,
                   created, asm, fs0, ncalls>>

\* json.dump(experiment, f, indent=2) and the end of the with block: the buffered
\* text reaches the file, from the start of the file on
Dump(i) ==
    /\ inflight[i].at = "opened"
    /\ MayStep(i)
    /\ fs' = [fs EXCEPT ![OutputFile(inflight[i])] = WriteAtStart(@, DocumentText(inflight[i]))]
    /\ inflight' = [inflight EXCEPT ![i].at = "written"]
    /\ UNCHANGED <<pc, call, ret, experiment, wrote, spawned, results, origin, idx,
                   created, asm, fs0, ncalls>>

\* return [{"type": "text", "text": f"Generated ...: {output_file}\n\nExperiment preview:\n..."}]
Return(i) ==
    /\ inflight[i].at = "written"
    /\ MayStep(i)
    /\ inflight' = [inflight EXCEPT
                      ![i].at = "returned",
                      ![i].ret = Returned("Generated " \o GenericTarget(inflight[i].name).func
                                          \o " experiment: " \o OutputFile(inflight[i])
                                          \o "\n\nExperiment preview:\n"
                                          \o DocumentText(inflight[i]))]
    /\ UNCHANGED <<fs, pc, call, ret, experiment, wrote, spawned, results, origin, idx,
                   created, asm, fs0, ncalls>>

Step == \E i \in DOMAIN inflight : Open(i) \/ Dump(i) \/ Return(i)

NextConcurrent == Receive \/ Step

SpecConcurrent == Init /\ [][NextConcurrent]_vars

----------------------------------------------------------------------------
(* The assembler called directly *)

ConfigPool ==
    {ExperimentConfig(PyStr("T"), PyStr(""), PyStr("us-east-1")),
     ExperimentConfig(PyStr("U"), PyStr("d"), PyStr("eu-west-1"))}

ProbePool ==
    {ProbeConfig("health_check", "chaoslib.provider.http", "get",
                 PyDict(<<[k |-> "url", v |-> PyStr("http://app/health")]>>)),
     ProbeConfig("count", "chaosaws.ec2.probes", "count_instances", PyDict(<<>>))}

ActionPool ==
    {ActionConfig("fail_az", "azchaosaws.ec2.actions", "fail_az",
                  PyDict(<<[k |-> "az", v |-> PyStr("us-east-1a")]>>)),
     ActionConfig("recover_az", "azchaosaws.ec2.actions", "recover_az",
                  PyDict(<<[k |-> "state_path", v |-> PyStr("./state.json")]>>)),
     ActionConfig("stop_instances", "chaosaws.ec2.actions", "stop_instances",
                  PyDict(<<[k |-> "force", v |-> PyBool(TRUE)]>>))}

\* the assembler's inputs are drawn before it is called
InitAsm ==
    /\ InitFiles
    /\ \E config \in ConfigPool, probes \in SeqsUpTo(ProbePool, MaxItems),
          actions \in SeqsUpTo(ActionPool, MaxItems),
          rollbacks \in SeqsUpTo(ActionPool, MaxItems) :
            asm = [called |-> FALSE, config |-> config, probes |-> probes,
                   actions |-> actions, rollbacks |-> rollbacks]

Assemble ==
    /\ ~asm.called
    /\ asm' = [asm EXCEPT !.called = TRUE]
    /\ experiment' = generate_experiment_json(asm.config, asm.probes, asm.actions,
                                              asm.rollbacks)
    /\ UNCHANGED <<fs, pc, call, ret, wrote, spawned, results, origin, idx, created,
                   fs0, ncalls, inflight>>

NextAsm == Assemble

SpecAsm == InitAsm /\ [][NextAsm]_vars

----------------------------------------------------------------------------
(* Properties *)

\* the state_files argument of the rollback call in progress or just finished
StateFiles == Item(call.arguments, "state_files").v

RollbackDone ==
    /\ pc = "done"
    /\ call.name = "chaos_rollback_from_state"
    /\ Has(call.arguments, "state_files")

\* the indices of the result entries appended while state file i was processed
EntriesOf(i) == {j \in 1..Len(origin) : origin[j] = i}

\* the steady-state probes of a document
Probes(doc) == At(At(doc, "steady-state-hypothesis"), "probes").v

\* C1: a generation call that lacks a required field of the tool's schema reports
\* an error and creates or modifies no file.
C1_MissingFieldWritesNothing ==
    (/\ pc = "done"
     /\ call.name \in GenerationTools
     /\ MissingRequired(call.name, call.arguments) # {})
    => (ret.kind = "raise" /\ wrote = {} /\ fs = fs0)

\* C2: a call whose name is not in the catalog fails with an unknown-tool error
\* that contains the name, writes no file and starts no subprocess, whatever the
\* arguments are.
C2_UnknownToolRejected ==
    (pc = "done" /\ call.name \notin ToolNames)
    => (/\ ret.kind = "raise"
        /\ ret.exc = "ValueError"
        /\ Contains(ret.text, "Unknown tool")
        /\ Contains(ret.text, call.name)
        /\ wrote = {}
        /\ fs = fs0
        /\ spawned = <<>>)

C2_Witness ==
    /\ pc = "done"
    /\ call.name \in UnknownNames
    /\ Has(call.arguments, "output_file")
    /\ Has(call.arguments, "title")
    /\ ret.kind = "raise"

\* C3: run, validate and rollback, called with their required arguments, end in a
\* returned text result for every subprocess outcome (missing file, timeout,
\* nonzero exit, CLI that cannot be started, nonexistent working directory).
C3_RunnersReturnText ==
    (/\ pc = "done"
     /\ call.name \in RunnerTools
     /\ MissingRequired(call.name, call.arguments) = {})
    => ret.kind = "return"

C3_Witness ==
    /\ pc = "done"
    /\ call.name = "chaos_run_experiment"
    /\ Len(spawned) = 1
    /\ spawned[1].cwd \notin ExistingDirs
    /\ spawned[1].result.kind = "oserror"
    /\ ret.kind = "return"

\* C4: in every tool call, generation tools included, a failure to open the
\* output path for writing is caught and returned as a textual error result.
C4_OpenFailureReturned ==
    (/\ pc = "done"
     /\ call.name \in GenerationTools
     /\ MissingRequired(call.name, call.arguments) = {}
     /\ Has(call.arguments, "output_file")
     /\ ~CanOpenForWrite(Item(call.arguments, "output_file").v))
    => ret.kind = "return"

\* C5: after rollback_from_state returns, no temporary file created during the
\* call still exists, on any exit path, a failed write of the temporary document
\* included.
C5_NoTemporaryFileLeft ==
    RollbackDone => created \cap DOMAIN fs = {}

\* C6: rollback_from_state goes through the state files in input order and every
\* state file contributes at least one result entry, whatever happened to the
\* files before it; all entries are returned together, in input order.
C6_EveryStateFileReported ==
    RollbackDone
    => (/\ ret.kind = "return"
        /\ ret.text = JoinLines(results)
        /\ \A i \in 1..Len(StateFiles) :
             /\ EntriesOf(i) # {}
             /\ \E j \in EntriesOf(i) :
                  /\ \A k \in EntriesOf(i) : j <= k
                  /\ Contains(results[j], StateFiles[i].v)
        /\ \A j, k \in 1..Len(origin) : j <= k => origin[j] <= origin[k])

C6_Witness ==
    /\ RollbackDone
    /\ Len(StateFiles) = 2
    /\ Len(spawned) = 2
    /\ spawned[1].result.kind = "timeout"
    /\ spawned[2].result.kind = "completed"

\* the case of C7: one existing state path containing "ec2" (at position e) and
\* one nonexistent path (at position m)
C7_Case(e, m) ==
    /\ RollbackDone
    /\ Len(StateFiles) = 2
    /\ {e, m} = {1, 2}
    /\ Contains(StateFiles[e].v, "ec2")
    /\ StateFiles[e].v \in DOMAIN fs0
    /\ StateFiles[m].v \notin DOMAIN fs0

\* C7 as stated: exactly two result entries, a rollback outcome and a not-found
\* warning, for every subprocess outcome; the subprocess is invoked exactly once
\* and never for the nonexistent path.
C7_ExactlyTwoEntries ==
    \A e, m \in {1, 2} :
        C7_Case(e, m)
        => (/\ Len(results) = 2
            /\ results[m] = "Warning: State file not found: " \o StateFiles[m].v
            /\ Contains(results[e], StateFiles[e].v)
            /\ Len(spawned) = 1
            /\ ~Contains(spawned[1].input, StateFiles[m].v))

\* C7 amended: one not-found warning for the nonexistent path; for the existing
\* path one outcome entry, followed by an Output entry iff stdout is non-empty and
\* an Errors entry iff stderr is non-empty; the subprocess is invoked at most
\* once, and never for the nonexistent path.
C7_EntriesFollowOutput ==
    \A e, m \in {1, 2} :
        C7_Case(e, m)
        => (/\ \E j \in 1..Len(results) :
                 /\ EntriesOf(m) = {j}
                 /\ results[j] = "Warning: State file not found: " \o StateFiles[m].v
            /\ Len(spawned) <= 1
            /\ \A k \in 1..Len(spawned) :
                 /\ Contains(spawned[k].input, StateFiles[e].v)
                 /\ ~Contains(spawned[k].input, StateFiles[m].v)
            /\ Cardinality(EntriesOf(e)) =
                 IF spawned # <<>> /\ spawned[1].result.kind = "completed"
                 THEN 1 + (IF spawned[1].result.stdout # "" THEN 1 ELSE 0)
                        + (IF spawned[1].result.stderr # "" THEN 1 ELSE 0)
                 ELSE 1
            /\ \A j \in EntriesOf(e) :
                 (\A k \in EntriesOf(e) : j <= k) => Contains(results[j], StateFiles[e].v))

C7_Witness ==
    /\ C7_Case(1, 2)
    /\ Len(spawned) = 1
    /\ spawned[1].result.stdout # ""
    /\ spawned[1].result.stderr # ""
    /\ Len(results) = 4

\* C8: run and validate on a path that does not exist return a not-found result
\* naming the path, and start no subprocess.
C8_MissingFileNotRun ==
    (/\ pc = "done"
     /\ call.name \in {"chaos_run_experiment", "chaos_validate_experiment"}
     /\ Has(call.arguments, "experiment_file")
     /\ Item(call.arguments, "experiment_file").v \notin DOMAIN fs0)
    => (/\ ret.kind = "return"
        /\ Contains(ret.text, "not found")
        /\ Contains(ret.text, Item(call.arguments, "experiment_file").v)
        /\ spawned = <<>>)

C8_Witness ==
    /\ pc = "done"
    /\ call.name = "chaos_validate_experiment"
    /\ Has(call.arguments, "experiment_file")
    /\ Item(call.arguments, "experiment_file").v \notin DOMAIN fs0
    /\ ret.kind = "return"

\* element i of a rendered section carries the name, module, func and arguments
\* of element i of the input
SameOrder(rendered, input) ==
    /\ Len(rendered) = Len(input)
    /\ \A i \in 1..Len(input) :
         /\ At(rendered[i], "name") = input[i].name
         /\ At(At(rendered[i], "provider"), "module") = input[i].module
         /\ At(At(rendered[i], "provider"), "func") = input[i].func
         /\ At(At(rendered[i], "provider"), "arguments") = input[i].arguments

\* C9: the assembled document's probes, method and rollbacks have the lengths of
\* the inputs and element i of each is the rendering of element i of the input.
C9_AssemblerKeepsOrder ==
    asm.called
    => (/\ SameOrder(Probes(experiment), asm.probes)
        /\ SameOrder(At(experiment, "method").v, asm.actions)
        /\ SameOrder(At(experiment, "rollbacks").v, asm.rollbacks))

C9_Witness ==
    /\ asm.called
    /\ Len(asm.probes) = 2
    /\ Len(asm.actions) = 2
    /\ asm.actions[1] # asm.actions[2]
    /\ Len(asm.rollbacks) = 2
    /\ asm.rollbacks # asm.actions

\* an AZ or ASG-AZ generator has assembled a document
C10_Case ==
    /\ pc = "done"
    /\ call.name \in {"chaos_generate_az_failure_experiment",
                      "chaos_generate_asg_az_failure_experiment"}
    /\ experiment # NoDocument

\* the probe list is the single HTTP get of url, expecting status 200
OneHealthCheck(probes, url) ==
    /\ Len(probes) = 1
    /\ At(At(probes[1], "provider"), "module") = PyStr("chaoslib.provider.http")
    /\ At(At(probes[1], "provider"), "func") = PyStr("get")
    /\ At(At(probes[1], "provider"), "arguments") =
         PyDict(<<[k |-> "url", v |-> url], [k |-> "expected_status", v |-> PyInt(200)]>>)

\* C10 as stated: no probe when health_check_url is omitted, exactly one HTTP get
\* probe of the URL when it is supplied, whatever string it is.
C10_ProbeIffSupplied ==
    C10_Case
    => IF Has(call.arguments, "health_check_url")
       THEN OneHealthCheck(Probes(experiment), Item(call.arguments, "health_check_url"))
       ELSE Probes(experiment) = <<>>

\* C10 amended: no probe when health_check_url is omitted or the empty string,
\* exactly one HTTP get probe of the URL when it is a non-empty string.
C10_ProbeIffNonEmpty ==
    C10_Case
    => IF /\ Has(call.arguments, "health_check_url")
          /\ Item(call.arguments, "health_check_url").v # ""
       THEN OneHealthCheck(Probes(experiment), Item(call.arguments, "health_check_url"))
       ELSE Probes(experiment) = <<>>

C10_Witness ==
    /\ C10_Case
    /\ call.name = "chaos_generate_asg_az_failure_experiment"
    /\ Has(call.arguments, "health_check_url")
    /\ Item(call.arguments, "health_check_url").v # ""
    /\ Len(Probes(experiment)) = 1
    /\ ret.kind = "return"

\* the EC2 action-type generator has assembled a document
C11_Case ==
    /\ pc = "done"
    /\ call.name = "chaos_generate_ec2_actions_experiment"
    /\ experiment # NoDocument

C12_Case ==
    /\ pc = "done"
    /\ call.name \in GenericTools
    /\ experiment # NoDocument

\* C12: the generic generator yields exactly one method step, no probes and no
\* rollbacks; the step's provider is the (module, func) it was given and its
\* arguments are the call's arguments without title, output_file and aws_region,
\* values and order unchanged.
C12_GenericStepIsArguments ==
    C12_Case
    => LET method == At(experiment, "method").v
           kept == SelectSeq(call.arguments,
                             LAMBDA it : it.k \notin {"title", "output_file", "aws_region"})
       IN /\ Len(method) = 1
          /\ Probes(experiment) = <<>>
          /\ At(experiment, "rollbacks").v = <<>>
          /\ At(At(method[1], "provider"), "module")
               = PyStr(GenericTarget(call.name).module)
          /\ At(At(method[1], "provider"), "func")
               = PyStr(GenericTarget(call.name).func)
          /\ At(At(method[1], "provider"), "arguments") = PyDict(kept)

C12_Witness ==
    /\ C12_Case
    /\ call.name = "chaos_simulate_network_latency"
    /\ Has(call.arguments, "output_file")
    /\ Has(call.arguments, "aws_region")
    /\ Has(call.arguments, "duration_seconds")
    /\ Has(call.arguments, "instance_ids")
    /\ ret.kind = "return"

\* C13: an action_type outside {stop_instances, terminate_instances,
\* reboot_instances} for the EC2 action-type tool, or a failure_type outside
\* {network, instance} for the AZ-failure tool, is rejected before generation and
\* produces no document; every generated EC2 action document's func is one of the
\* three declared values.
C13_EnumValuesEnforced ==
    /\ (/\ pc = "done"
        /\ \/ /\ call.name = "chaos_generate_ec2_actions_experiment"
              /\ Has(call.arguments, "action_type")
              /\ Item(call.arguments, "action_type").v
                   \notin {"stop_instances", "terminate_instances", "reboot_instances"}
           \/ /\ call.name = "chaos_generate_az_failure_experiment"
              /\ Has(call.arguments, "failure_type")
              /\ Item(call.arguments, "failure_type").v \notin {"network", "instance"})
       => (ret.kind = "raise" /\ experiment = NoDocument /\ wrote = {} /\ fs = fs0)
    /\ (/\ pc = "done"
        /\ call.name = "chaos_generate_ec2_actions_experiment"
        /\ experiment # NoDocument)
       => At(At(At(experiment, "method").v[1], "provider"), "func").v
            \in {"stop_instances", "terminate_instances", "reboot_instances"}

\* the only step of the document's method, and the commands it sends
OnlyStep(doc) == At(doc, "method").v[1]
Commands(doc) == At(At(At(At(OnlyStep(doc), "provider"), "arguments"), "parameters"), "commands").v

\* the decimal text of integer argument k, or of its default
IntText(k, default) ==
    IF Has(call.arguments, k) THEN ToString(Item(call.arguments, k).v) ELSE ToString(default)

\* an SSM stress generator has assembled a document
SsmCase(name) ==
    /\ pc = "done"
    /\ call.name = name
    /\ experiment # NoDocument

\* the document has a single send_command step of chaosaws.ssm.actions running
\* AWS-RunShellScript on the given instances
SendCommandStep(doc) ==
    /\ Len(At(doc, "method").v) = 1
    /\ At(At(OnlyStep(doc), "provider"), "module") = PyStr("chaosaws.ssm.actions")
    /\ At(At(OnlyStep(doc), "provider"), "func") = PyStr("send_command")
    /\ At(At(At(OnlyStep(doc), "provider"), "arguments"), "document_name")
         = PyStr("AWS-RunShellScript")
    /\ At(At(At(OnlyStep(doc), "provider"), "arguments"), "instance_ids")
         = Item(call.arguments, "instance_ids")

\* C14: the SSM CPU stress generator yields a single send_command step whose
\* commands list is exactly <<'stress --cpu c --timeout ds'>>, with c = cpu_cores
\* (2 when omitted) and d = duration_seconds (300 when omitted).
C14_CpuStressCommand ==
    SsmCase("chaos_ssm_stress_cpu")
    => /\ SendCommandStep(experiment)
       /\ Commands(experiment) =
            <<PyStr("stress --cpu " \o IntText("cpu_cores", 2)
                    \o " --timeout " \o IntText("duration_seconds", 300) \o "s")>>

C14_Witness ==
    /\ SsmCase("chaos_ssm_stress_cpu")
    /\ Has(call.arguments, "cpu_cores")
    /\ ~Has(call.arguments, "duration_seconds")
    /\ Commands(experiment) = <<PyStr("stress --cpu 4 --timeout 300s")>>
    /\ ret.kind = "return"

\* C15: the SSM disk stress generator yields exactly three commands, in order: a
\* dd fill of p/chaos_fill with count=s, 'sleep d', and the removal of the same
\* p/chaos_fill; p defaults to /tmp, s to 1024, d to 600.
C15_DiskStressCommands ==
    SsmCase("chaos_ssm_fill_disk")
    => LET p == IF Has(call.arguments, "path") THEN Item(call.arguments, "path").v
                ELSE "/tmp"
           file == p \o "/chaos_fill"
           cmds == Commands(experiment)
       IN /\ Len(cmds) = 3
          /\ cmds[1] = PyStr("dd if=/dev/zero of=" \o file \o " bs=1M count="
                             \o IntText("size_mb", 1024))
          /\ cmds[2] = PyStr("sleep " \o IntText("duration_seconds", 600))
          /\ cmds[3] = PyStr("rm -f " \o file)

C15_Witness ==
    /\ SsmCase("chaos_ssm_fill_disk")
    /\ Has(call.arguments, "path")
    /\ Has(call.arguments, "size_mb")
    /\ ~Has(call.arguments, "duration_seconds")
    /\ Commands(experiment)[3] = PyStr("rm -f /var/tmp/chaos_fill")
    /\ Commands(experiment)[2] = PyStr("sleep 600")
    /\ ret.kind = "return"

\* validate ran the CLI on an existing file and the CLI exited
C16_Case ==
    /\ pc = "done"
    /\ call.name = "chaos_validate_experiment"
    /\ Len(spawned) = 1
    /\ spawned[1].result.kind = "completed"

\* C16: validate on an existing file reports PASSED iff the exit code is zero and
\* FAILED for every nonzero exit code, whatever the CLI wrote to stdout and stderr.
C16_VerdictFollowsExitCode ==
    C16_Case
    => LET result == spawned[1].result
           verdict == IF result.returncode = 0 THEN "PASSED" ELSE "FAILED"
           line == "Validation result: " \o verdict \o "\n"
       IN /\ ret.kind = "return"
          /\ Len(ret.text) >= Len(line)
          /\ SubSeq(ret.text, 1, Len(line)) = line
          /\ ret.text = line \o "\n" \o result.stdout \o "\n" \o result.stderr

C16_Witness ==
    /\ C16_Case
    /\ spawned[1].result.returncode = 2
    /\ spawned[1].result.stdout # ""
    /\ spawned[1].result.stderr = ""
    /\ Contains(ret.text, "Validation result: FAILED")

\* the module the path of a state file selects: "ec2" first, then "asg"
C17_Route(path) ==
    IF Contains(path, "ec2") THEN "azchaosaws.ec2.actions"
    ELSE IF Contains(path, "asg") THEN "azchaosaws.asg.actions"
    ELSE ""

\* the end of a serialised document whose method is the single step recover_az of
\* `module` with the state path as its sole argument
C17_MethodText(path, module) ==
    "  \"method\": "
    \o json_dumps_at(
         PyList(<<PyDict(<<
            [k |-> "type", v |-> PyStr("action")],
            [k |-> "name", v |-> PyStr("recover_az")],
            [k |-> "provider",
             v |-> PyDict(<<[k |-> "type", v |-> PyStr("python")],
                            [k |-> "module", v |-> PyStr(module)],
                            [k |-> "func", v |-> PyStr("recover_az")],
                            [k |-> "arguments",
                             v |-> PyDict(<<[k |-> "state_path", v |-> PyStr(path)]>>)]>>)]
         >>)>>), 1)
    \o "\n}"

EndsWith(text, suffix) ==
    /\ Len(text) >= Len(suffix)
    /\ SubSeq(text, Len(text) - Len(suffix) + 1, Len(text)) = suffix

\* C17: an existing state file whose path contains "ec2" (also when it contains
\* "asg") is rolled back with the EC2 module, otherwise one containing "asg" with
\* the ASG module, otherwise it is skipped with a warning and no subprocess; the
\* document handed to the CLI has the single method step recover_az of that module
\* with the state path as its sole argument.
C17_RoutedBySubstring ==
    RollbackDone
    => LET existing == {i \in 1..Len(StateFiles) : StateFiles[i].v \in DOMAIN fs0}
           routed == {i \in existing : C17_Route(StateFiles[i].v) # ""}
       IN /\ Len(spawned) <= Cardinality(routed)
          /\ \A k \in 1..Len(spawned) :
               \E i \in routed :
                  EndsWith(spawned[k].input,
                           C17_MethodText(StateFiles[i].v, C17_Route(StateFiles[i].v)))
          /\ \A i \in existing \ routed :
               \E j \in 1..Len(results) :
                  /\ EntriesOf(i) = {j}
                  /\ results[j] = "Warning: Unknown state file type: " \o StateFiles[i].v

C17_Witness ==
    /\ RollbackDone
    /\ StateFiles = <<PyStr("./asg-of-ec2.json"), PyStr("./state.json")>>
    /\ Len(spawned) = 1
    /\ Contains(spawned[1].input, "azchaosaws.ec2.actions")
    /\ spawned[1].result.kind = "completed"
    /\ results[Len(results)] = "Warning: Unknown state file type: ./state.json"

\* a generation call has returned normally
GenerationReturned ==
    /\ pc = "done"
    /\ call.name \in GenerationTools
    /\ ret.kind = "return"

\* C18: every successful generation call writes the assembled document to
\* output_file when that argument is supplied, and the document embedded in the
\* returned preview is identical to the content of the written file.
C18_PreviewIsWrittenDocument ==
    GenerationReturned
    => /\ experiment # NoDocument
       /\ Has(call.arguments, "output_file")
            => wrote = {Item(call.arguments, "output_file").v}
       /\ \E p \in wrote :
            /\ wrote = {p}
            /\ p \in DOMAIN fs
            /\ fs[p] = json_dumps(experiment)
            /\ EndsWith(ret.text, ": " \o p \o "\n\nExperiment preview:\n" \o fs[p])

C18_Witness ==
    /\ GenerationReturned
    /\ call.name = "chaos_ssm_fill_disk"
    /\ Has(call.arguments, "output_file")
    /\ wrote = {"./out.json"}
    /\ "./out.json" \notin DOMAIN fs0
    /\ Contains(fs["./out.json"], "chaos_fill")

\* C19: last write wins.  No generation call of a sequence is refused because its
\* output path already holds a file; after each call the file at its path is
\* exactly that call's document, with nothing left of what was there, and every
\* other file is as the earlier calls left it; between calls nothing changes.
C19_LastWriteWins ==
    /\ pc = "idle" => fs = fs0
    /\ (pc = "done" /\ call.name \in GenerationTools
        /\ MissingRequired(call.name, call.arguments) = {})
       => /\ ret.kind = "return"
          /\ \E p \in wrote :
               /\ wrote = {p}
               /\ Has(call.arguments, "output_file")
                    => p = Item(call.arguments, "output_file").v
               /\ DOMAIN fs = DOMAIN fs0 \cup {p}
               /\ fs[p] = json_dumps(experiment)
               /\ \A q \in DOMAIN fs0 \ {p} : fs[q] = fs0[q]

\* a second call has replaced the longer document the first call wrote to ./out.json
C19_Witness ==
    /\ pc = "done"
    /\ ncalls = 2
    /\ ret.kind = "return"
    /\ wrote = {"./out.json"}
    /\ "./out.json" \in DOMAIN fs0
    /\ fs0["./out.json"] # json_dumps(StaleDocument)
    /\ Len(fs["./out.json"]) < Len(fs0["./out.json"])
    /\ fs["./out.json"] = json_dumps(experiment)

\* the invocations that ended in a timeout
TimedOut == {k \in 1..Len(spawned) : spawned[k].result.kind = "timeout"}

\* C20: a timeout is never retried.  One run call or one validate call invokes the
\* CLI at most once, one rollback call at most once per state file; after a timeout
\* (3600 s for run, 60 s for validate, 600 s for a rollback) the operation returns a
\* textual failure for that item and invokes the CLI no more for it.
C20_TimeoutNotRetried ==
    /\ (pc = "done" /\ call.name = "chaos_run_experiment")
       => /\ Len(spawned) <= 1
          /\ \A k \in 1..Len(spawned) : spawned[k].timeout = 3600
          /\ TimedOut # {}
               => (ret.kind = "return" /\ Contains(ret.text, "timed out after 1 hour"))
    /\ (pc = "done" /\ call.name = "chaos_validate_experiment")
       => /\ Len(spawned) <= 1
          /\ \A k \in 1..Len(spawned) : spawned[k].timeout = 60
          /\ TimedOut # {}
               => /\ ret.kind = "return"
                  /\ Contains(ret.text, "Error validating experiment")
                  /\ Contains(ret.text, "timed out")
    /\ (pc = "rollback_loop" /\ call.name = "chaos_rollback_from_state")
       => Len(spawned) <= idx - 1
    /\ RollbackDone
       => /\ Len(spawned) <= Len(StateFiles)
          /\ \A k \in 1..Len(spawned) : spawned[k].timeout = 600
          /\ ret.kind = "return"
          /\ Cardinality(TimedOut) =
               Cardinality({j \in 1..Len(results) :
                               /\ Len(results[j]) >= 18
                               /\ SubSeq(results[j], 1, 18) = "Error rolling back"
                               /\ Contains(results[j], "timed out")})

C20_Witness ==
    /\ RollbackDone
    /\ Len(StateFiles) = 2
    /\ Len(spawned) = 2
    /\ TimedOut = {1}
    /\ spawned[2].result.kind = "completed"
    /\ Len(results) >= 2

\* the text is a serialised document whose first field is version "1.0.0"
VersionFirst(text) ==
    LET head == "{\n  \"version\": \"1.0.0\",\n"
    IN /\ Len(text) >= Len(head)
       /\ SubSeq(text, 1, Len(head)) = head

\* C21: every document written to disk has version "1.0.0": the file a generation
\* tool writes, and the temporary rollback document the CLI is started on.
C21_VersionIsLiteral ==
    /\ (pc = "done" /\ call.name \in GenerationTools)
       => \A p \in wrote :
             /\ At(experiment, "version") = PyStr("1.0.0")
             /\ VersionFirst(fs[p])
    /\ call.name = "chaos_rollback_from_state"
       => \A k \in 1..Len(spawned) : VersionFirst(spawned[k].input)

C21_Witness ==
    /\ RollbackDone
    /\ Len(spawned) = 2
    /\ VersionFirst(spawned[1].input)
    /\ Contains(spawned[2].input, "azchaosaws.asg.actions")

\* the keys of a rendered entry, in order
Keys(entry) == [i \in 1..Len(entry.v) |-> entry.v[i].k]

\* the provider every entry has: python, and the input's module, func and arguments
UniformProvider(entry, input) ==
    At(entry, "provider") =
        PyDict(<<[k |-> "type", v |-> PyStr("python")],
                 [k |-> "module", v |-> input.module],
                 [k |-> "func", v |-> input.func],
                 [k |-> "arguments", v |-> input.arguments]>>)

\* C22: in every assembled document each entry of probes, method and rollbacks has
\* the provider {type: "python", module, func, arguments} with the input's values;
\* the entries differ only in the wrapper: the entry's type, and a tolerance that
\* probes alone carry.
C22_UniformProvider ==
    asm.called
    => LET probes == Probes(experiment)
           method == At(experiment, "method").v
           rollbacks == At(experiment, "rollbacks").v
       IN /\ \A i \in 1..Len(probes) :
               /\ UniformProvider(probes[i], asm.probes[i])
               /\ Keys(probes[i]) = <<"type", "name", "provider", "tolerance">>
               /\ At(probes[i], "type") = asm.probes[i].type
               /\ At(probes[i], "tolerance") = asm.probes[i].tolerance
          /\ \A i \in 1..Len(method) :
               /\ UniformProvider(method[i], asm.actions[i])
               /\ Keys(method[i]) = <<"type", "name", "provider">>
               /\ At(method[i], "type") = asm.actions[i].type
          /\ \A i \in 1..Len(rollbacks) :
               /\ UniformProvider(rollbacks[i], asm.rollbacks[i])
               /\ Keys(rollbacks[i]) = <<"type", "name", "provider">>
               /\ At(rollbacks[i], "type") = asm.rollbacks[i].type

C22_Witness ==
    /\ asm.called
    /\ Len(Probes(experiment)) = 1
    /\ Len(At(experiment, "method").v) = 1
    /\ Len(At(experiment, "rollbacks").v) = 1
    /\ At(Probes(experiment)[1], "type") = PyStr("probe")
    /\ At(At(experiment, "rollbacks").v[1], "type") = PyStr("action")
    /\ At(Probes(experiment)[1], "provider").v[1].v = PyStr("python")

\* the call ended in the dispatcher's unknown-tool error
UnknownToolError ==
    /\ ret.kind = "raise"
    /\ ret.exc = "ValueError"
    /\ ret.text = "Unknown tool: " \o call.name

\* C23: the names list_tools returns are the names call_tool handles: no listed
\* tool ends in the unknown-tool error, and a name outside the catalog always does,
\* reaching no generator and no runner.
C23_CatalogIsDispatchTable ==
    pc # "idle"
    => /\ call.name \in ToolNames <=> ~UnknownToolError
       /\ call.name \notin ToolNames
            => /\ pc = "done"
               /\ experiment = NoDocument
               /\ wrote = {}
               /\ spawned = <<>>
               /\ fs = fs0

C23_Witness ==
    /\ pc = "done"
    /\ call.name = "stop_instances"
    /\ Has(call.arguments, "title")
    /\ UnknownToolError

\* a generation tool has assembled a document
Generated ==
    /\ pc = "done"
    /\ call.name \in GenerationTools
    /\ experiment # NoDocument

\* C24: the generated document's title is the title argument, its
\* configuration.aws_region is the aws_region argument, or "us-east-1" when that is
\* omitted, and its tags list is empty.
C24_MetadataFromArguments ==
    Generated
    => /\ At(experiment, "title") = Item(call.arguments, "title")
       /\ At(At(experiment, "configuration"), "aws_region") =
            (IF Has(call.arguments, "aws_region") THEN Item(call.arguments, "aws_region")
             ELSE PyStr("us-east-1"))
       /\ At(experiment, "tags") = PyList(<<>>)

C24_Witness ==
    /\ Generated
    /\ call.name = "chaos_failover_db_cluster"
    /\ Has(call.arguments, "aws_region")
    /\ At(At(experiment, "configuration"), "aws_region") = PyStr("eu-west-1")
    /\ ret.kind = "return"

\* C25: the file a generator has written parses back, as JSON, to a document equal
\* to the assembled one field for field, with probes, method steps and rollbacks
\* in the assembled order.
C25_RoundTrip ==
    GenerationReturned
    => \A p \in wrote :
          LET parsed == json_loads(fs[p])
          IN /\ parsed.ok
             /\ parsed.v = experiment

C25_Witness ==
    /\ GenerationReturned
    /\ call.name = "chaos_ssm_kill_process"
    /\ At(experiment, "title") = PyStr("Kill \"nginx\"")
    /\ wrote = {"./kill_process-experiment.json"}
    /\ Contains(fs["./kill_process-experiment.json"], "Kill \\\"nginx\\\"")
    /\ json_loads(fs["./kill_process-experiment.json"]).v = experiment

\* C26: a generation call without output_file writes the document to exactly the
\* default output_file path the catalog declares for the tool.
C26_DefaultPathIsDeclaredDefault ==
    (GenerationReturned /\ ~Has(call.arguments, "output_file"))
    => wrote = {Tool(call.name).output_file}

\* C27: the command line run starts is chaos run <path>, followed by
\* --journal-path <j> exactly when a non-empty journal_path j is supplied; it is the
\* same with and without dry_run.
C27_RunCommandLine ==
    (pc = "done" /\ call.name = "chaos_run_experiment" /\ spawned # <<>>)
    => LET args == call.arguments
           path == Item(args, "experiment_file").v
       IN /\ Len(spawned) = 1
          /\ spawned[1].cmd =
                IF Has(args, "journal_path") /\ Item(args, "journal_path").v # ""
                THEN <<"chaos", "run", path, "--journal-path", Item(args, "journal_path").v>>
                ELSE <<"chaos", "run", path>>

C27_Witness ==
    /\ pc = "done"
    /\ call.name = "chaos_run_experiment"
    /\ Has(call.arguments, "dry_run")
    /\ Item(call.arguments, "dry_run") = PyBool(TRUE)
    /\ Has(call.arguments, "journal_path")
    /\ Len(spawned) = 1
    /\ spawned[1].cmd = <<"chaos", "run", "./exp.json", "--journal-path", "./journal.json">>
    /\ spawned[1].result.kind = "completed"

\* the provider of a step
ProviderOf(step) == At(step, "provider")

\* C28: a document of the AZ-failure or ASG-AZ-failure generator has one method
\* step and one rollback step; the rollback's state_path is the method's
\* state_path, which is the supplied one or the tool's default, and the rollback is
\* recover_az of the module whose fail_az the method calls.
C28_RollbackMatchesMethod ==
    (/\ Generated
     /\ call.name \in {"chaos_generate_az_failure_experiment",
                       "chaos_generate_asg_az_failure_experiment"})
    => LET method == At(experiment, "method").v
           rollbacks == At(experiment, "rollbacks").v
           default == IF call.name = "chaos_generate_az_failure_experiment"
                      THEN "./fail_az.ec2.json" ELSE "./fail_az.asg.json"
       IN /\ Len(method) = 1
          /\ Len(rollbacks) = 1
          /\ At(ProviderOf(rollbacks[1]), "arguments").v
               = <<[k |-> "state_path",
                    v |-> At(At(ProviderOf(method[1]), "arguments"), "state_path")]>>
          /\ At(At(ProviderOf(method[1]), "arguments"), "state_path")
               = Get(call.arguments, "state_path", PyStr(default))
          /\ At(ProviderOf(method[1]), "func") = PyStr("fail_az")
          /\ At(ProviderOf(rollbacks[1]), "func") = PyStr("recover_az")
          /\ At(ProviderOf(rollbacks[1]), "module") = At(ProviderOf(method[1]), "module")

C28_Witness ==
    /\ GenerationReturned
    /\ call.name = "chaos_generate_asg_az_failure_experiment"
    /\ Has(call.arguments, "state_path")
    /\ At(At(ProviderOf(At(experiment, "rollbacks").v[1]), "arguments"), "state_path")
         = PyStr("./state.json")
    /\ At(ProviderOf(At(experiment, "rollbacks").v[1]), "module") = PyStr("azchaosaws.asg.actions")

\* both requests in flight have returned
BothReturned ==
    /\ inflight # <<>>
    /\ \A i \in DOMAIN inflight : inflight[i].at = "returned"

\* the file holds the whole document of one of the two, and each preview is the
\* invocation's own document
OneCompleteDocument ==
    /\ fs[OutputFile(inflight[1])] \in {DocumentText(inflight[i]) : i \in DOMAIN inflight}
    /\ \A i \in DOMAIN inflight :
          /\ inflight[i].ret.kind = "return"
          /\ EndsWith(inflight[i].ret.text,
                      "\n\nExperiment preview:\n" \o DocumentText(inflight[i]))

\* C29 as stated: when two generation invocations for the same output path are in
\* flight at once and both complete, the file holds the complete document of
\* exactly one of them, never a mixture or a truncated document, and each
\* returned preview is the invocation's own document.
C29_FileIsOneDocument ==
    BothReturned => OneCompleteDocument

\* C29 for one server process: when the two invocations are served by the same
\* server process and both complete, the file holds the complete document of
\* exactly one of them and each returned preview is the invocation's own document.
C29_FileIsOneDocumentInProcess ==
    (BothReturned /\ inflight[1].process = inflight[2].process) => OneCompleteDocument

C29_Witness ==
    /\ BothReturned
    /\ inflight[1].process = inflight[2].process
    /\ Len(DocumentText(inflight[1])) > Len(DocumentText(inflight[2]))
    /\ fs[OutputFile(inflight[1])] = DocumentText(inflight[2])
    /\ "./out.json" \in DOMAIN fs0

\* the files the run, validate and rollback requests start with
ExecFiles == CHOOSE files \in InitialFiles : "./out.json" \notin DOMAIN files

\* C30: run, validate and rollback_from_state never write, truncate or delete the
\* experiment file or a state file; the only files they create are the temporary
\* rollback documents, so after any sequence of these calls the experiment files
\* and their contents are as before.
C30_GivenFilesUnchanged ==
    /\ \A p \in DOMAIN ExecFiles : p \in DOMAIN fs /\ fs[p] = ExecFiles[p]
    /\ \A p \in DOMAIN fs \ DOMAIN ExecFiles :
          \E n \in 1..Cardinality(DOMAIN fs) : p = TempName(n)
    /\ pc # "idle" => DOMAIN fs \ DOMAIN fs0 \subseteq created
    /\ pc # "idle" => wrote \subseteq created

C30_Witness ==
    /\ RollbackDone
    /\ Len(spawned) = 2
    /\ created # {}
    /\ \A i \in 1..Len(StateFiles) : StateFiles[i].v \in DOMAIN fs
    /\ fs = ExecFiles

====
